---------------------------- MODULE Spec2Model ----------------------------
(***************************************************************************)
(* A model of the Quizito AI service (src/ai/quizito_ai_service.py): the  *)
(* deterministic fallback quiz generator, the quiz enhancer, the          *)
(* /generate-quiz handler and the process-wide state they share.          *)
(*                                                                         *)
(* A Python str is a sequence of one-character strings, so that lower(),  *)
(* substring tests, formatting and concatenation are computed and not     *)
(* assumed.  A dict is a function from its keys (TLA+ strings) to its     *)
(* values; a key the dict lacks is outside its DOMAIN.  A list is a       *)
(* sequence.                                                               *)
(***************************************************************************)
EXTENDS Integers, Sequences, FiniteSets, TLC

VARIABLES
    p_topic,      \* pure-function harness: the topic argument
    p_n,          \* pure-function harness: the count argument
    p_done,       \* pure-function harness: the functions that have returned
    p_category,   \* the value categorize_topic returned
    p_aspects,    \* the value generate_aspects_from_topic returned
    heap,         \* the dicts of the client's quizzes, by address
    rng,          \* the state of numpy's process-wide random generator
    clock,        \* what datetime.now() returns
    origin,       \* where the client's quiz came from
    gen,          \* the arguments of the generate_enhanced_fallback_quiz call
    cur,          \* the address of the quiz the client holds, 0 for none
    calls,        \* the enhancement modes applied so far
    last,         \* the last enhance_quiz_content call: argument, its value before, result
    client,       \* the module-level LLM client handle: TRUE when one is configured
    seed,         \* the state of numpy's generator when the process started
    t_pc,         \* per thread: where it is in generate_enhanced_fallback_quiz
    t_args,       \* per thread: the arguments of its call
    t_questions,  \* per thread: the local list questions
    t_frame,      \* per thread: the locals of its enhance_quiz_content call
    t_result,     \* per thread: the quiz returned
    h_data,       \* the JSON body of the request to /generate-quiz
    h_llm,        \* how the LLM behaved when the handler called it
    h_response,   \* what the handler answered, and the calls it made
    d_text,       \* text harness: the text argument
    d_page_texts, \* text harness: the page texts argument
    d_done,       \* text harness: the functions that have returned
    d_analysis,   \* the value analyze_pdf_content returned
    d_keywords,   \* the value extract_keywords_from_context returned
    a_difficulty, \* points harness: the difficulty argument
    a_count,      \* points harness: the count argument
    a_assigned    \* per place: the (points, timeLimit) pairs it gave

pureVars == <<p_topic, p_n, p_done, p_category, p_aspects>>

sessionVars == <<origin, gen, cur, calls, last>>

coreVars == <<heap, rng, clock, origin, gen, cur, calls, last>>

threadVars == <<seed, t_pc, t_args, t_questions, t_frame, t_result>>

concVars == <<client, seed, t_pc, t_args, t_questions, t_frame, t_result>>

handlerVars == <<h_data, h_llm, h_response>>

textVars == <<d_text, d_page_texts, d_done, d_analysis, d_keywords>>

assignVars == <<a_difficulty, a_count, a_assigned>>

vars == <<p_topic, p_n, p_done, p_category, p_aspects, heap, rng, clock, origin, gen, cur, calls, last,
          client, seed, t_pc, t_args, t_questions, t_frame, t_result, h_data, h_llm, h_response,
          d_text, d_page_texts, d_done, d_analysis, d_keywords,
          a_difficulty, a_count, a_assigned>>

---------------------------------------------------------------------------
(* Bounds of the model.                                                    *)

\* longest topic drawn over TopicAlphabet
MaxTopicLen == 3

\* largest num_aspects handed to generate_aspects_from_topic
MaxAspects == 12

\* largest num_questions handed to generate_enhanced_fallback_quiz
MaxQuestions == 2

\* most questions in a quiz a client brings
MaxClientQuestions == 5

\* most enhance_quiz_content calls in a row
MaxEnhance == 2

MaxTextWords == 3

MaxRepeat == 11

MaxTopicWords == 12

---------------------------------------------------------------------------
(* str operations.                                                         *)

UpperChars == <<"A","B","C","D","E","F","G","H","I","J","K","L","M","N","O","P","Q","R","S","T","U","V","W","X","Y","Z">>

LowerChars == <<"a","b","c","d","e","f","g","h","i","j","k","l","m","n","o","p","q","r","s","t","u","v","w","x","y","z">>

\* one character of str.lower()
LowerChar(c) ==
    IF \E k \in 1..Len(UpperChars) : UpperChars[k] = c
    THEN LowerChars[CHOOSE k \in 1..Len(UpperChars) : UpperChars[k] = c]
    ELSE c

\* one character of str.upper()
UpperChar(c) ==
    IF \E k \in 1..Len(LowerChars) : LowerChars[k] = c
    THEN UpperChars[CHOOSE k \in 1..Len(LowerChars) : LowerChars[k] = c]
    ELSE c

\* str.lower()
lower(s) == [k \in 1..Len(s) |-> LowerChar(s[k])]

\* str.capitalize(): first character upper-cased, the rest lower-cased
capitalize(s) == [k \in 1..Len(s) |-> IF k = 1 THEN UpperChar(s[k]) ELSE LowerChar(s[k])]

\* the Python test  sub in s  on two str
Contains(s, sub) ==
    \E k \in 0..(Len(s) - Len(sub)) : SubSeq(s, k + 1, k + Len(sub)) = sub

\* str.replace(' ', '-')
replace_space_hyphen(s) == [k \in 1..Len(s) |-> IF s[k] = " " THEN "-" ELSE s[k]]

---------------------------------------------------------------------------
(* categorize_topic: the category table in its declaration order (a dict  *)
(* iterates in insertion order).                                           *)

categories == <<
    [name |-> (* "technology" *) <<"t","e","c","h","n","o","l","o","g","y">>,
     keywords |-> <<(* "programming" *) <<"p","r","o","g","r","a","m","m","i","n","g">>, (* "software" *) <<"s","o","f","t","w","a","r","e">>, (* "computer" *) <<"c","o","m","p","u","t","e","r">>, (* "ai" *) <<"a","i">>, (* "machine learning" *) <<"m","a","c","h","i","n","e"," ","l","e","a","r","n","i","n","g">>,
                    (* "data science" *) <<"d","a","t","a"," ","s","c","i","e","n","c","e">>, (* "web" *) <<"w","e","b">>, (* "mobile" *) <<"m","o","b","i","l","e">>, (* "cloud" *) <<"c","l","o","u","d">>, (* "cybersecurity" *) <<"c","y","b","e","r","s","e","c","u","r","i","t","y">>>>],
    [name |-> (* "science" *) <<"s","c","i","e","n","c","e">>,
     keywords |-> <<(* "biology" *) <<"b","i","o","l","o","g","y">>, (* "chemistry" *) <<"c","h","e","m","i","s","t","r","y">>, (* "physics" *) <<"p","h","y","s","i","c","s">>, (* "astronomy" *) <<"a","s","t","r","o","n","o","m","y">>, (* "geology" *) <<"g","e","o","l","o","g","y">>,
                    (* "environmental" *) <<"e","n","v","i","r","o","n","m","e","n","t","a","l">>, (* "medical" *) <<"m","e","d","i","c","a","l">>, (* "neuroscience" *) <<"n","e","u","r","o","s","c","i","e","n","c","e">>>>],
    [name |-> (* "history" *) <<"h","i","s","t","o","r","y">>,
     keywords |-> <<(* "historical" *) <<"h","i","s","t","o","r","i","c","a","l">>, (* "war" *) <<"w","a","r">>, (* "civilization" *) <<"c","i","v","i","l","i","z","a","t","i","o","n">>, (* "ancient" *) <<"a","n","c","i","e","n","t">>, (* "medieval" *) <<"m","e","d","i","e","v","a","l">>,
                    (* "modern" *) <<"m","o","d","e","r","n">>, (* "political" *) <<"p","o","l","i","t","i","c","a","l">>, (* "cultural" *) <<"c","u","l","t","u","r","a","l">>>>],
    [name |-> (* "mathematics" *) <<"m","a","t","h","e","m","a","t","i","c","s">>,
     keywords |-> <<(* "math" *) <<"m","a","t","h">>, (* "algebra" *) <<"a","l","g","e","b","r","a">>, (* "calculus" *) <<"c","a","l","c","u","l","u","s">>, (* "statistics" *) <<"s","t","a","t","i","s","t","i","c","s">>, (* "geometry" *) <<"g","e","o","m","e","t","r","y">>>>],
    [name |-> (* "business" *) <<"b","u","s","i","n","e","s","s">>,
     keywords |-> <<(* "marketing" *) <<"m","a","r","k","e","t","i","n","g">>, (* "finance" *) <<"f","i","n","a","n","c","e">>, (* "management" *) <<"m","a","n","a","g","e","m","e","n","t">>, (* "economics" *) <<"e","c","o","n","o","m","i","c","s">>, (* "entrepreneurship" *) <<"e","n","t","r","e","p","r","e","n","e","u","r","s","h","i","p">>>>] >>

\* any(keyword in topic_lower for keyword in keywords)
any_keyword_in(keywords, topic_lower) ==
    \E k \in 1..Len(keywords) : Contains(topic_lower, keywords[k])

\* the for loop of categorize_topic from its k-th entry on
RECURSIVE categorize_from(_, _)
categorize_from(topic_lower, k) ==
    IF k > Len(categories) THEN (* "General" *) <<"G","e","n","e","r","a","l">>
    ELSE IF any_keyword_in(categories[k].keywords, topic_lower)
         THEN capitalize(categories[k].name)
         ELSE categorize_from(topic_lower, k + 1)

\* categorize_topic without  topic.lower()
categorize_topic_case_sensitive(topic) == categorize_from(topic, 1)

categorize_topic(topic) == categorize_from(lower(topic), 1)

---------------------------------------------------------------------------
(* generate_aspects_from_topic.                                            *)

\* the keys of aspect_templates
aspect_template_keys == <<(* "technology" *) <<"t","e","c","h","n","o","l","o","g","y">>, (* "science" *) <<"s","c","i","e","n","c","e">>, (* "history" *) <<"h","i","s","t","o","r","y">>, (* "general" *) <<"g","e","n","e","r","a","l">>>>

aspect_templates == <<
    <<(* "fundamentals" *) <<"f","u","n","d","a","m","e","n","t","a","l","s">>, (* "applications" *) <<"a","p","p","l","i","c","a","t","i","o","n","s">>, (* "architecture" *) <<"a","r","c","h","i","t","e","c","t","u","r","e">>, (* "security" *) <<"s","e","c","u","r","i","t","y">>, (* "performance" *) <<"p","e","r","f","o","r","m","a","n","c","e">>,
      (* "implementation" *) <<"i","m","p","l","e","m","e","n","t","a","t","i","o","n">>, (* "best practices" *) <<"b","e","s","t"," ","p","r","a","c","t","i","c","e","s">>, (* "trends" *) <<"t","r","e","n","d","s">>, (* "tools" *) <<"t","o","o","l","s">>, (* "methodologies" *) <<"m","e","t","h","o","d","o","l","o","g","i","e","s">>>>,
    <<(* "principles" *) <<"p","r","i","n","c","i","p","l","e","s">>, (* "theories" *) <<"t","h","e","o","r","i","e","s">>, (* "experiments" *) <<"e","x","p","e","r","i","m","e","n","t","s">>, (* "discoveries" *) <<"d","i","s","c","o","v","e","r","i","e","s">>, (* "applications" *) <<"a","p","p","l","i","c","a","t","i","o","n","s">>,
      (* "methodologies" *) <<"m","e","t","h","o","d","o","l","o","g","i","e","s">>, (* "impact" *) <<"i","m","p","a","c","t">>, (* "research" *) <<"r","e","s","e","a","r","c","h">>, (* "concepts" *) <<"c","o","n","c","e","p","t","s">>, (* "phenomena" *) <<"p","h","e","n","o","m","e","n","a">>>>,
    <<(* "events" *) <<"e","v","e","n","t","s">>, (* "figures" *) <<"f","i","g","u","r","e","s">>, (* "periods" *) <<"p","e","r","i","o","d","s">>, (* "causes" *) <<"c","a","u","s","e","s">>, (* "consequences" *) <<"c","o","n","s","e","q","u","e","n","c","e","s">>, (* "themes" *) <<"t","h","e","m","e","s">>,
      (* "movements" *) <<"m","o","v","e","m","e","n","t","s">>, (* "cultures" *) <<"c","u","l","t","u","r","e","s">>, (* "developments" *) <<"d","e","v","e","l","o","p","m","e","n","t","s">>, (* "interpretations" *) <<"i","n","t","e","r","p","r","e","t","a","t","i","o","n","s">>>>,
    <<(* "basics" *) <<"b","a","s","i","c","s">>, (* "advanced concepts" *) <<"a","d","v","a","n","c","e","d"," ","c","o","n","c","e","p","t","s">>, (* "practical applications" *) <<"p","r","a","c","t","i","c","a","l"," ","a","p","p","l","i","c","a","t","i","o","n","s">>, (* "common mistakes" *) <<"c","o","m","m","o","n"," ","m","i","s","t","a","k","e","s">>,
      (* "best practices" *) <<"b","e","s","t"," ","p","r","a","c","t","i","c","e","s">>, (* "tools" *) <<"t","o","o","l","s">>, (* "resources" *) <<"r","e","s","o","u","r","c","e","s">>, (* "career aspects" *) <<"c","a","r","e","e","r"," ","a","s","p","e","c","t","s">>, (* "future trends" *) <<"f","u","t","u","r","e"," ","t","r","e","n","d","s">>>> >>

\* aspect_templates.get(category, aspect_templates['general'])
aspect_templates_get(category) ==
    IF \E k \in 1..Len(aspect_template_keys) : aspect_template_keys[k] = category
    THEN aspect_templates[CHOOSE k \in 1..Len(aspect_template_keys) : aspect_template_keys[k] = category]
    ELSE aspect_templates[4]

\* range(n) as the sequence of its values; empty for n <= 0
range(n) == [k \in 1..n |-> k - 1]

\* Python's  a % b  for b > 0
PyMod(a, b) == a % b

\* seq[:n] for n >= 0
Take(seq, n) == SubSeq(seq, 1, IF n < Len(seq) THEN n ELSE Len(seq))

\* generate_aspects_from_topic that stops at the end of the template list
generate_aspects_no_cycle(topic, num_aspects) ==
    LET templates == aspect_templates_get(lower(categorize_topic(topic)))
    IN  [k \in 1..(IF num_aspects < Len(templates) THEN num_aspects ELSE Len(templates)) |->
            templates[k] \o (* " of " *) <<" ","o","f"," ">> \o topic]

generate_aspects_from_topic(topic, num_aspects) ==
    LET category  == lower(categorize_topic(topic))
        templates == aspect_templates_get(category)
        aspects   == [k \in 1..Len(range(num_aspects)) |->
                        templates[PyMod(range(num_aspects)[k], Len(templates)) + 1]
                            \o (* " of " *) <<" ","o","f"," ">> \o topic]
    IN  Take(aspects, num_aspects)

---------------------------------------------------------------------------
(* dict and list operations.                                               *)

\* d.get(key, default)
Get(d, key, default) == IF key \in DOMAIN d THEN d[key] ELSE default

\* d[key] = value
SetKey(d, key, value) ==
    [k \in DOMAIN d \cup {key} |-> IF k = key THEN value ELSE d[k]]

\* {**d, **e}
Merge(d, e) ==
    [k \in DOMAIN d \cup DOMAIN e |-> IF k \in DOMAIN e THEN e[k] ELSE d[k]]

\* the empty dict
EmptyDict == [k \in {} |-> 0]

\* a local variable: value is computed once and F applied to it
Let(value, F(_)) == CHOOSE result \in {F(x) : x \in {value}} : TRUE

\* min(a, b)
Min(a, b) == IF a < b THEN a ELSE b

\* sum(seq)
RECURSIVE Sum(_)
Sum(seq) == IF seq = <<>> THEN 0 ELSE Head(seq) + Sum(Tail(seq))

Digits == <<"0","1","2","3","4","5","6","7","8","9">>

\* str(n) for an int n >= 0
RECURSIVE IntToStr(_)
IntToStr(n) ==
    IF n < 10 THEN <<Digits[n + 1]>>
    ELSE IntToStr(n \div 10) \o <<Digits[(n % 10) + 1]>>

---------------------------------------------------------------------------
(* numpy's process-wide random generator.  np.random.shuffle draws from   *)
(* the global generator and advances it.  The generator is reduced to the *)
(* draws one shuffle of four items consumes: a state is one of the        *)
(* 4 * 3 * 2 outcomes of those draws, and a shuffle moves the generator   *)
(* to another state.                                                       *)

RngStates == 4 * 3 * 2

\* the generator's state after one shuffle of four items
rng_advance(r) == (13 * r + 7) % RngStates

\* seq with the items at 0-based positions a and b exchanged
Swap(seq, a, b) ==
    [k \in 1..Len(seq) |-> IF k = a + 1 THEN seq[b + 1]
                           ELSE IF k = b + 1 THEN seq[a + 1] ELSE seq[k]]

\* np.random.shuffle on a list of four: for i = 3, 2, 1 draw j in 0..i and
\* exchange x[i] and x[j]
np_random_shuffle(x, r) ==
    LET j3 == r \div 6
        j2 == (r \div 2) % 3
        j1 == r % 2
    IN  Swap(Swap(Swap(x, 3, j3), 2, j2), 1, j1)

\* list.index(x), 0-based, for an x the list holds
ListIndex(seq, x) == (CHOOSE k \in 1..Len(seq) : seq[k] = x /\ \A j \in 1..(k - 1) : seq[j] # x) - 1

\* a move to the front that writes the item over the first one
MoveToFront_overwrite(seq, idx) == [seq EXCEPT ![1] = seq[idx + 1]]

\* seq.insert(0, seq.pop(idx)), idx 0-based
MoveToFront(seq, idx) ==
    <<seq[idx + 1]>> \o SubSeq(seq, 1, idx) \o SubSeq(seq, idx + 2, Len(seq))

---------------------------------------------------------------------------
(* The fallback generator's helpers.                                       *)

s_easy == (* "easy" *) <<"e","a","s","y">>

s_medium == (* "medium" *) <<"m","e","d","i","u","m">>

s_hard == (* "hard" *) <<"h","a","r","d">>

\* the distractor list chosen by difficulty
distractors_for(correct_aspect, topic, difficulty) ==
    IF difficulty = s_easy THEN
        << (* "A different aspect of " *) <<"A"," ","d","i","f","f","e","r","e","n","t"," ","a","s","p","e","c","t"," ","o","f"," ">> \o topic,
           (* "An unrelated concept to " *) <<"A","n"," ","u","n","r","e","l","a","t","e","d"," ","c","o","n","c","e","p","t"," ","t","o"," ">> \o topic,
           (* "A common misconception about " *) <<"A"," ","c","o","m","m","o","n"," ","m","i","s","c","o","n","c","e","p","t","i","o","n"," ","a","b","o","u","t"," ">> \o topic,
           (* "A basic principle of " *) <<"A"," ","b","a","s","i","c"," ","p","r","i","n","c","i","p","l","e"," ","o","f"," ">> \o topic >>
    ELSE IF difficulty = s_medium THEN
        << (* "A related but incorrect aspect of " *) <<"A"," ","r","e","l","a","t","e","d"," ","b","u","t"," ","i","n","c","o","r","r","e","c","t"," ","a","s","p","e","c","t"," ","o","f"," ">> \o topic,
           (* "A partially correct concept about " *) <<"A"," ","p","a","r","t","i","a","l","l","y"," ","c","o","r","r","e","c","t"," ","c","o","n","c","e","p","t"," ","a","b","o","u","t"," ">> \o topic,
           (* "An advanced but irrelevant concept in " *) <<"A","n"," ","a","d","v","a","n","c","e","d"," ","b","u","t"," ","i","r","r","e","l","e","v","a","n","t"," ","c","o","n","c","e","p","t"," ","i","n"," ">> \o topic,
           (* "A historical perspective on " *) <<"A"," ","h","i","s","t","o","r","i","c","a","l"," ","p","e","r","s","p","e","c","t","i","v","e"," ","o","n"," ">> \o topic >>
    ELSE
        << (* "A nuanced but incorrect interpretation of " *) <<"A"," ","n","u","a","n","c","e","d"," ","b","u","t"," ","i","n","c","o","r","r","e","c","t"," ","i","n","t","e","r","p","r","e","t","a","t","i","o","n"," ","o","f"," ">> \o correct_aspect,
           (* "A controversial viewpoint on " *) <<"A"," ","c","o","n","t","r","o","v","e","r","s","i","a","l"," ","v","i","e","w","p","o","i","n","t"," ","o","n"," ">> \o topic,
           (* "An advanced technical detail unrelated to " *) <<"A","n"," ","a","d","v","a","n","c","e","d"," ","t","e","c","h","n","i","c","a","l"," ","d","e","t","a","i","l"," ","u","n","r","e","l","a","t","e","d"," ","t","o"," ">> \o correct_aspect,
           (* "A theoretical concept that doesn't apply to " *) <<"A"," ","t","h","e","o","r","e","t","i","c","a","l"," ","c","o","n","c","e","p","t"," ","t","h","a","t"," ","d","o","e","s","n","'","t"," ","a","p","p","l","y"," ","t","o"," ">> \o correct_aspect >>

\* generate_plausible_options without the move of the correct option to the front
generate_plausible_options_no_repin(correct_aspect, topic, difficulty, r) ==
    np_random_shuffle(<<(* "The " *) <<"T","h","e"," ">> \o correct_aspect>>
                        \o Take(distractors_for(correct_aspect, topic, difficulty), 3), r)

\* generate_plausible_options, the generator being in state r
generate_plausible_options(correct_aspect, topic, difficulty, r) ==
    LET correct_option == (* "The " *) <<"T","h","e"," ">> \o correct_aspect
        distractors    == distractors_for(correct_aspect, topic, difficulty)
        shuffled       == np_random_shuffle(<<correct_option>> \o Take(distractors, 3), r)
        correct_index  == ListIndex(shuffled, correct_option)
    IN  IF correct_index # 0 THEN MoveToFront(shuffled, correct_index) ELSE shuffled

create_detailed_explanation(topic, aspect, difficulty) ==
    LET easy   == (* "This is correct because understanding " *) <<"T","h","i","s"," ","i","s"," ","c","o","r","r","e","c","t"," ","b","e","c","a","u","s","e"," ","u","n","d","e","r","s","t","a","n","d","i","n","g"," ">> \o aspect \o (* " is fundamental to " *) <<" ","i","s"," ","f","u","n","d","a","m","e","n","t","a","l"," ","t","o"," ">> \o topic
                    \o (* ". It represents a basic principle that forms the foundation for more advanced concepts." *) <<"."," ","I","t"," ","r","e","p","r","e","s","e","n","t","s"," ","a"," ","b","a","s","i","c"," ","p","r","i","n","c","i","p","l","e"," ","t","h","a","t"," ","f","o","r","m","s"," ","t","h","e"," ","f","o","u","n","d","a","t","i","o","n"," ","f","o","r"," ","m","o","r","e"," ","a","d","v","a","n","c","e","d"," ","c","o","n","c","e","p","t","s",".">>
        medium == (* "The correct answer relates to " *) <<"T","h","e"," ","c","o","r","r","e","c","t"," ","a","n","s","w","e","r"," ","r","e","l","a","t","e","s"," ","t","o"," ">> \o aspect \o (* ", which is a key component of " *) <<","," ","w","h","i","c","h"," ","i","s"," ","a"," ","k","e","y"," ","c","o","m","p","o","n","e","n","t"," ","o","f"," ">> \o topic
                    \o (* ". This aspect is important because it connects various concepts within " *) <<"."," ","T","h","i","s"," ","a","s","p","e","c","t"," ","i","s"," ","i","m","p","o","r","t","a","n","t"," ","b","e","c","a","u","s","e"," ","i","t"," ","c","o","n","n","e","c","t","s"," ","v","a","r","i","o","u","s"," ","c","o","n","c","e","p","t","s"," ","w","i","t","h","i","n"," ">> \o topic
                    \o (* " and demonstrates practical applications." *) <<" ","a","n","d"," ","d","e","m","o","n","s","t","r","a","t","e","s"," ","p","r","a","c","t","i","c","a","l"," ","a","p","p","l","i","c","a","t","i","o","n","s",".">>
        hard   == (* "This answer correctly identifies " *) <<"T","h","i","s"," ","a","n","s","w","e","r"," ","c","o","r","r","e","c","t","l","y"," ","i","d","e","n","t","i","f","i","e","s"," ">> \o aspect \o (* ", which involves complex interplay within " *) <<","," ","w","h","i","c","h"," ","i","n","v","o","l","v","e","s"," ","c","o","m","p","l","e","x"," ","i","n","t","e","r","p","l","a","y"," ","w","i","t","h","i","n"," ">>
                    \o topic \o (* ". Understanding this requires knowledge of underlying principles, contextual factors, and potential implications in advanced scenarios of " *) <<"."," ","U","n","d","e","r","s","t","a","n","d","i","n","g"," ","t","h","i","s"," ","r","e","q","u","i","r","e","s"," ","k","n","o","w","l","e","d","g","e"," ","o","f"," ","u","n","d","e","r","l","y","i","n","g"," ","p","r","i","n","c","i","p","l","e","s",","," ","c","o","n","t","e","x","t","u","a","l"," ","f","a","c","t","o","r","s",","," ","a","n","d"," ","p","o","t","e","n","t","i","a","l"," ","i","m","p","l","i","c","a","t","i","o","n","s"," ","i","n"," ","a","d","v","a","n","c","e","d"," ","s","c","e","n","a","r","i","o","s"," ","o","f"," ">>
                    \o topic \o <<".">>
    IN  IF difficulty = s_easy THEN easy
        ELSE IF difficulty = s_hard THEN hard
        ELSE medium

generate_educational_tip(topic, aspect) ==
    LET tips == <<
            (* "To better understand " *) <<"T","o"," ","b","e","t","t","e","r"," ","u","n","d","e","r","s","t","a","n","d"," ">> \o aspect \o (* " in " *) <<" ","i","n"," ">> \o topic \o (* ", try relating it to practical examples." *) <<","," ","t","r","y"," ","r","e","l","a","t","i","n","g"," ","i","t"," ","t","o"," ","p","r","a","c","t","i","c","a","l"," ","e","x","a","m","p","l","e","s",".">>,
            (* "Consider how " *) <<"C","o","n","s","i","d","e","r"," ","h","o","w"," ">> \o aspect \o (* " connects to other concepts within " *) <<" ","c","o","n","n","e","c","t","s"," ","t","o"," ","o","t","h","e","r"," ","c","o","n","c","e","p","t","s"," ","w","i","t","h","i","n"," ">> \o topic \o (* " for deeper understanding." *) <<" ","f","o","r"," ","d","e","e","p","e","r"," ","u","n","d","e","r","s","t","a","n","d","i","n","g",".">>,
            (* "Research real-world applications of " *) <<"R","e","s","e","a","r","c","h"," ","r","e","a","l","-","w","o","r","l","d"," ","a","p","p","l","i","c","a","t","i","o","n","s"," ","o","f"," ">> \o aspect \o (* " to see how " *) <<" ","t","o"," ","s","e","e"," ","h","o","w"," ">> \o topic \o (* " is used in practice." *) <<" ","i","s"," ","u","s","e","d"," ","i","n"," ","p","r","a","c","t","i","c","e",".">>,
            (* "Create mind maps linking " *) <<"C","r","e","a","t","e"," ","m","i","n","d"," ","m","a","p","s"," ","l","i","n","k","i","n","g"," ">> \o aspect \o (* " to related concepts in " *) <<" ","t","o"," ","r","e","l","a","t","e","d"," ","c","o","n","c","e","p","t","s"," ","i","n"," ">> \o topic \o <<".">>,
            (* "Discuss " *) <<"D","i","s","c","u","s","s"," ">> \o aspect \o (* " with peers to gain different perspectives on " *) <<" ","w","i","t","h"," ","p","e","e","r","s"," ","t","o"," ","g","a","i","n"," ","d","i","f","f","e","r","e","n","t"," ","p","e","r","s","p","e","c","t","i","v","e","s"," ","o","n"," ">> \o topic \o <<".">> >>
    IN  tips[PyMod(Len(aspect), Len(tips)) + 1]

\* generate_learning_objectives for num_objectives >= 0
generate_learning_objectives(topic, num_objectives) ==
    LET objectives == <<
            (* "Understand the fundamental concepts of " *) <<"U","n","d","e","r","s","t","a","n","d"," ","t","h","e"," ","f","u","n","d","a","m","e","n","t","a","l"," ","c","o","n","c","e","p","t","s"," ","o","f"," ">> \o topic,
            (* "Identify key components and their relationships within " *) <<"I","d","e","n","t","i","f","y"," ","k","e","y"," ","c","o","m","p","o","n","e","n","t","s"," ","a","n","d"," ","t","h","e","i","r"," ","r","e","l","a","t","i","o","n","s","h","i","p","s"," ","w","i","t","h","i","n"," ">> \o topic,
            (* "Apply knowledge of " *) <<"A","p","p","l","y"," ","k","n","o","w","l","e","d","g","e"," ","o","f"," ">> \o topic \o (* " to solve basic problems" *) <<" ","t","o"," ","s","o","l","v","e"," ","b","a","s","i","c"," ","p","r","o","b","l","e","m","s">>,
            (* "Analyze different aspects of " *) <<"A","n","a","l","y","z","e"," ","d","i","f","f","e","r","e","n","t"," ","a","s","p","e","c","t","s"," ","o","f"," ">> \o topic \o (* " and their implications" *) <<" ","a","n","d"," ","t","h","e","i","r"," ","i","m","p","l","i","c","a","t","i","o","n","s">>,
            (* "Evaluate the importance and applications of " *) <<"E","v","a","l","u","a","t","e"," ","t","h","e"," ","i","m","p","o","r","t","a","n","c","e"," ","a","n","d"," ","a","p","p","l","i","c","a","t","i","o","n","s"," ","o","f"," ">> \o topic,
            (* "Synthesize information about " *) <<"S","y","n","t","h","e","s","i","z","e"," ","i","n","f","o","r","m","a","t","i","o","n"," ","a","b","o","u","t"," ">> \o topic \o (* " to form comprehensive understanding" *) <<" ","t","o"," ","f","o","r","m"," ","c","o","m","p","r","e","h","e","n","s","i","v","e"," ","u","n","d","e","r","s","t","a","n","d","i","n","g">>,
            (* "Develop critical thinking skills related to " *) <<"D","e","v","e","l","o","p"," ","c","r","i","t","i","c","a","l"," ","t","h","i","n","k","i","n","g"," ","s","k","i","l","l","s"," ","r","e","l","a","t","e","d"," ","t","o"," ">> \o topic,
            (* "Recognize common misconceptions about " *) <<"R","e","c","o","g","n","i","z","e"," ","c","o","m","m","o","n"," ","m","i","s","c","o","n","c","e","p","t","i","o","n","s"," ","a","b","o","u","t"," ">> \o topic >>
    IN  Take(objectives, Min(num_objectives, Len(objectives)))

get_educational_level(difficulty) ==
    IF difficulty = s_easy THEN (* "Beginner/Introductory" *) <<"B","e","g","i","n","n","e","r","/","I","n","t","r","o","d","u","c","t","o","r","y">>
    ELSE IF difficulty = s_hard THEN (* "Advanced/Expert" *) <<"A","d","v","a","n","c","e","d","/","E","x","p","e","r","t">>
    ELSE (* "Intermediate" *) <<"I","n","t","e","r","m","e","d","i","a","t","e">>

\* points_map.get(difficulty, 100) with medium worth what easy is
points_map_get_flat(difficulty) ==
    IF difficulty = s_hard THEN 200 ELSE 100

\* points_map.get(difficulty, 100)
points_map_get(difficulty) ==
    IF difficulty = s_easy THEN 100
    ELSE IF difficulty = s_medium THEN 150
    ELSE IF difficulty = s_hard THEN 200
    ELSE 100

\* a time_map lookup that gives the default whatever the difficulty
time_map_get_flat(difficulty) == 30

\* time_map.get(difficulty, 30)
time_map_get(difficulty) ==
    IF difficulty = s_easy THEN 30
    ELSE IF difficulty = s_medium THEN 45
    ELSE IF difficulty = s_hard THEN 60
    ELSE 30

\* question_templates with topic and aspect substituted in every entry
question_templates(topic, aspect) == <<
    (* "What is the primary concept of " *) <<"W","h","a","t"," ","i","s"," ","t","h","e"," ","p","r","i","m","a","r","y"," ","c","o","n","c","e","p","t"," ","o","f"," ">> \o topic \o (* " regarding " *) <<" ","r","e","g","a","r","d","i","n","g"," ">> \o aspect \o <<"?">>,
    (* "Which of the following best describes " *) <<"W","h","i","c","h"," ","o","f"," ","t","h","e"," ","f","o","l","l","o","w","i","n","g"," ","b","e","s","t"," ","d","e","s","c","r","i","b","e","s"," ">> \o aspect \o (* " in " *) <<" ","i","n"," ">> \o topic \o <<"?">>,
    (* "What is a key characteristic of " *) <<"W","h","a","t"," ","i","s"," ","a"," ","k","e","y"," ","c","h","a","r","a","c","t","e","r","i","s","t","i","c"," ","o","f"," ">> \o topic \o (* " related to " *) <<" ","r","e","l","a","t","e","d"," ","t","o"," ">> \o aspect \o <<"?">>,
    (* "How does " *) <<"H","o","w"," ","d","o","e","s"," ">> \o aspect \o (* " function within " *) <<" ","f","u","n","c","t","i","o","n"," ","w","i","t","h","i","n"," ">> \o topic \o <<"?">>,
    (* "What is the significance of " *) <<"W","h","a","t"," ","i","s"," ","t","h","e"," ","s","i","g","n","i","f","i","c","a","n","c","e"," ","o","f"," ">> \o aspect \o (* " in understanding " *) <<" ","i","n"," ","u","n","d","e","r","s","t","a","n","d","i","n","g"," ">> \o topic \o <<"?">> >>

---------------------------------------------------------------------------
(* extract_keywords_from_context.                                          *)

IsLetter(c) ==
    \/ \E k \in 1..Len(LowerChars) : LowerChars[k] = c
    \/ \E k \in 1..Len(UpperChars) : UpperChars[k] = c

\* a character the regular expression class \w matches
IsWordChar(c) ==
    IsLetter(c) \/ c = "_" \/ \E k \in 1..Len(Digits) : Digits[k] = c

\* the last position of the run of letters that starts at position i
RECURSIVE RunEnd(_, _)
RunEnd(s, i) ==
    IF i < Len(s) /\ IsLetter(s[i + 1]) THEN RunEnd(s, i + 1) ELSE i

\* re.findall(r'\b[a-zA-Z]{4,}\b', s) from position i on: the runs of four or
\* more letters with no word character on either side
RECURSIVE findall_words_from(_, _)
findall_words_from(s, i) ==
    IF i > Len(s) THEN <<>>
    ELSE IF IsLetter(s[i]) /\ (i = 1 \/ ~IsWordChar(s[i - 1]))
         THEN LET e == RunEnd(s, i)
              IN  IF e - i + 1 >= 4 /\ (e = Len(s) \/ ~IsWordChar(s[e + 1]))
                  THEN <<SubSeq(s, i, e)>> \o findall_words_from(s, e + 1)
                  ELSE findall_words_from(s, e + 1)
         ELSE findall_words_from(s, i + 1)

common_words == {(* "this" *) <<"t","h","i","s">>, (* "that" *) <<"t","h","a","t">>, (* "with" *) <<"w","i","t","h">>, (* "from" *) <<"f","r","o","m">>, (* "have" *) <<"h","a","v","e">>, (* "were" *) <<"w","e","r","e">>, (* "their" *) <<"t","h","e","i","r">>, (* "which" *) <<"w","h","i","c","h">>, (* "about" *) <<"a","b","o","u","t">>}

\* the keys of word_counts in insertion order
RECURSIVE word_count_keys(_, _)
word_count_keys(words, seen) ==
    IF words = <<>> THEN <<>>
    ELSE IF Head(words) \in common_words \/ Head(words) \in seen
         THEN word_count_keys(Tail(words), seen)
         ELSE <<Head(words)>> \o word_count_keys(Tail(words), seen \cup {Head(words)})

\* word_counts[word]
word_count(words, word) == Cardinality({k \in 1..Len(words) : words[k] = word})

\* sorted(word_counts.items(), key=lambda x: x[1], reverse=True): a stable
\* sort, so equal counts keep their insertion order
RECURSIVE sorted_by_count(_, _)
sorted_by_count(keys, words) ==
    IF keys = <<>> THEN <<>>
    ELSE LET best == CHOOSE k \in 1..Len(keys) :
                        /\ \A j \in 1..Len(keys) : word_count(words, keys[j]) <= word_count(words, keys[k])
                        /\ \A j \in 1..(k - 1) : word_count(words, keys[j]) < word_count(words, keys[k])
         IN  <<keys[best]>> \o sorted_by_count(SubSeq(keys, 1, best - 1) \o SubSeq(keys, best + 1, Len(keys)), words)

\* str.title()
title(s) ==
    [k \in 1..Len(s) |-> IF k = 1 \/ ~IsLetter(s[k - 1]) THEN UpperChar(s[k]) ELSE LowerChar(s[k])]

\* extract_keywords_from_context without the sort: the words in the order of
\* their first occurrence
extract_keywords_unsorted(context) ==
    IF context = <<>> THEN <<>>
    ELSE LET top == Take(word_count_keys(findall_words_from(lower(context), 1), {}), 10)
         IN  [k \in 1..Len(top) |-> title(top[k])]

extract_keywords_from_context(context) ==
    IF context = <<>> THEN <<>>
    ELSE LET words        == findall_words_from(lower(context), 1)
             sorted_words == sorted_by_count(word_count_keys(words, {}), words)
             top          == Take(sorted_words, 10)
         IN  [k \in 1..Len(top) |-> title(top[k])]

---------------------------------------------------------------------------
(* generate_enhanced_fallback_quiz.                                        *)

\* the generator's state after k shuffles
RECURSIVE rng_after(_, _)
rng_after(state, shuffles) ==
    IF shuffles = 0 THEN state
    ELSE IF shuffles = 1 THEN rng_advance(state)
    ELSE Let(rng_after(state, shuffles \div 2),
             LAMBDA half : rng_after(half, shuffles - (shuffles \div 2)))

\* the dict appended to questions in iteration i of the loop, the generator
\* being in state r when the iteration starts
fallback_question(topic, difficulty, quiz_type, aspects, i, r) ==
    LET aspect   == aspects[PyMod(i, Len(aspects)) + 1]
        template == PyMod(i, Len(question_templates(topic, aspect)))
    IN  [question       |-> question_templates(topic, aspect)[template + 1],
         type           |-> quiz_type,
         options        |-> generate_plausible_options(aspect, topic, difficulty, r),
         correctAnswer  |-> 0,
         explanation    |-> create_detailed_explanation(topic, aspect, difficulty),
         points         |-> points_map_get(difficulty),
         timeLimit      |-> time_map_get(difficulty),
         difficulty     |-> difficulty,
         category       |-> categorize_topic(topic),
         tags           |-> <<replace_space_hyphen(lower(topic)), replace_space_hyphen(lower(aspect)), difficulty>>,
         educationalTip |-> generate_educational_tip(topic, aspect)]

\* the quiz_data dict built around the questions.  estimatedTime, the float
\* num_questions * 0.8, is kept in tenths of a minute.
fallback_quiz_data(topic, difficulty, num_questions, keywords, questions) ==
    [title              |-> (* "Comprehensive Quiz: " *) <<"C","o","m","p","r","e","h","e","n","s","i","v","e"," ","Q","u","i","z",":"," ">> \o topic,
     description        |-> (* "A detailed quiz covering various aspects of " *) <<"A"," ","d","e","t","a","i","l","e","d"," ","q","u","i","z"," ","c","o","v","e","r","i","n","g"," ","v","a","r","i","o","u","s"," ","a","s","p","e","c","t","s"," ","o","f"," ">> \o topic
                              \o (* ". \n        This quiz is designed to test understanding at " *) <<"."," ","\n"," "," "," "," "," "," "," "," ","T","h","i","s"," ","q","u","i","z"," ","i","s"," ","d","e","s","i","g","n","e","d"," ","t","o"," ","t","e","s","t"," ","u","n","d","e","r","s","t","a","n","d","i","n","g"," ","a","t"," ">> \o difficulty
                              \o (* " level and covers \n        key concepts, applications, and principles." *) <<" ","l","e","v","e","l"," ","a","n","d"," ","c","o","v","e","r","s"," ","\n"," "," "," "," "," "," "," "," ","k","e","y"," ","c","o","n","c","e","p","t","s",","," ","a","p","p","l","i","c","a","t","i","o","n","s",","," ","a","n","d"," ","p","r","i","n","c","i","p","l","e","s",".">>,
     category           |-> categorize_topic(topic),
     difficulty         |-> difficulty,
     estimatedTime      |-> num_questions * 8,
     totalPoints        |-> num_questions * points_map_get(difficulty),
     learningObjectives |-> generate_learning_objectives(topic, num_questions),
     questions          |-> questions,
     tags               |-> <<replace_space_hyphen(lower(topic)), difficulty, (* "educational" *) <<"e","d","u","c","a","t","i","o","n","a","l">>, (* "comprehensive" *) <<"c","o","m","p","r","e","h","e","n","s","i","v","e">>>> \o keywords,
     metadata           |-> [educationalLevel |-> get_educational_level(difficulty),
                             prerequisites    |-> IF difficulty \in {s_medium, s_hard}
                                                  THEN (* "Basic understanding of " *) <<"B","a","s","i","c"," ","u","n","d","e","r","s","t","a","n","d","i","n","g"," ","o","f"," ">> \o topic ELSE (* "None" *) <<"N","o","n","e">>,
                             targetAudience   |-> (* "Students, professionals, and lifelong learners" *) <<"S","t","u","d","e","n","t","s",","," ","p","r","o","f","e","s","s","i","o","n","a","l","s",","," ","a","n","d"," ","l","i","f","e","l","o","n","g"," ","l","e","a","r","n","e","r","s">>,
                             generationMethod |-> (* "enhanced_fallback" *) <<"e","n","h","a","n","c","e","d","_","f","a","l","l","b","a","c","k">>,
                             keywordsUsed     |-> IF keywords # <<>> THEN Take(keywords, 5) ELSE <<>>]]

\* generate_enhanced_fallback_quiz for num_questions >= 0, the generator being
\* in state r at the call; the quiz is returned as a value (its questions and
\* metadata in place)
generate_enhanced_fallback_quiz(topic, difficulty, num_questions, quiz_type, context, r) ==
    LET keywords  == IF context # <<>> THEN extract_keywords_from_context(context) ELSE <<>>
        aspects   == generate_aspects_from_topic(topic, num_questions)
        questions == [k \in 1..num_questions |->
                        fallback_question(topic, difficulty, quiz_type, aspects, k - 1, rng_after(r, k - 1))]
    IN  fallback_quiz_data(topic, difficulty, num_questions, keywords, questions)

---------------------------------------------------------------------------
(* More str operations.                                                    *)

IsSpace(c) == c \in {" ", "\n", "\t", "\r", "\f"}

\* str.replace(old, new) from position i on, for a non-empty old
RECURSIVE replace_from(_, _, _, _)
replace_from(s, old, new, i) ==
    IF i > Len(s) THEN <<>>
    ELSE IF i + Len(old) - 1 <= Len(s) /\ SubSeq(s, i, i + Len(old) - 1) = old
         THEN new \o replace_from(s, old, new, i + Len(old))
         ELSE <<s[i]>> \o replace_from(s, old, new, i + 1)

replace(s, old, new) == replace_from(s, old, new, 1)

\* str.lstrip()
RECURSIVE lstrip(_)
lstrip(s) == IF s # <<>> /\ IsSpace(Head(s)) THEN lstrip(Tail(s)) ELSE s

\* str.rstrip()
RECURSIVE rstrip(_)
rstrip(s) == IF s # <<>> /\ IsSpace(s[Len(s)]) THEN rstrip(SubSeq(s, 1, Len(s) - 1)) ELSE s

\* str.strip()
strip(s) == rstrip(lstrip(s))

\* len(s.split()): the number of runs of non-whitespace characters
split_len(s) ==
    Cardinality({k \in 1..Len(s) : ~IsSpace(s[k]) /\ (k = 1 \/ IsSpace(s[k - 1]))})
---------------------------------------------------------------------------
(* analyze_pdf_content and the functions it calls.  A number the code     *)
(* rounds to two decimals is kept in hundredths.                           *)

IsUpper(c) == \E k \in 1..Len(UpperChars) : UpperChars[k] = c

IsLower(c) == \E k \in 1..Len(LowerChars) : LowerChars[k] = c

\* the elements of a set of integers in increasing order
SortedSeq(S) == [i \in 1..Cardinality(S) |-> CHOOSE x \in S : Cardinality({y \in S : y < x}) = i - 1]

\* str.split(): the runs of non-whitespace characters, in order
split(s) ==
    LET starts == SortedSeq({k \in 1..Len(s) : ~IsSpace(s[k]) /\ (k = 1 \/ IsSpace(s[k - 1]))})
        ends   == SortedSeq({k \in 1..Len(s) : ~IsSpace(s[k]) /\ (k = Len(s) \/ IsSpace(s[k + 1]))})
    IN  [j \in 1..Len(starts) |-> SubSeq(s, starts[j], ends[j])]

\* a character of the class [.!?]
IsTerminator(c) == c \in {".", "!", "?"}

\* re.split(r'[.!?]+', s): the pieces of s between the runs of terminators;
\* a string with no terminator, the empty string too, is one piece
re_split_sentences(s) ==
    LET starts == SortedSeq({k \in 1..Len(s) : IsTerminator(s[k]) /\ (k = 1 \/ ~IsTerminator(s[k - 1]))})
        ends   == SortedSeq({k \in 1..Len(s) : IsTerminator(s[k]) /\ (k = Len(s) \/ ~IsTerminator(s[k + 1]))})
        n      == Len(starts)
    IN  [j \in 1..(n + 1) |->
            SubSeq(s, IF j = 1 THEN 1 ELSE ends[j - 1] + 1, IF j = n + 1 THEN Len(s) ELSE starts[j] - 1)]

\* the last position of the run of lower-case letters that follows position i
RECURSIVE LowerRunEnd(_, _)
LowerRunEnd(s, i) ==
    IF i < Len(s) /\ IsLower(s[i + 1]) THEN LowerRunEnd(s, i + 1) ELSE i

\* re.findall(r'\b[A-Z][a-z]{3,}\b', s): an upper-case letter and three or
\* more lower-case letters with no word character on either side
findall_capitalized(s) ==
    LET matches(i) == /\ IsUpper(s[i])
                      /\ (i = 1 \/ ~IsWordChar(s[i - 1]))
                      /\ LowerRunEnd(s, i) - i >= 3
                      /\ (LowerRunEnd(s, i) = Len(s) \/ ~IsWordChar(s[LowerRunEnd(s, i) + 1]))
        starts == SortedSeq({i \in 1..Len(s) : matches(i)})
    IN  [j \in 1..Len(starts) |-> SubSeq(s, starts[j], LowerRunEnd(s, starts[j]))]

topic_common_words == {(* "This" *) <<"T","h","i","s">>, (* "That" *) <<"T","h","a","t">>, (* "With" *) <<"W","i","t","h">>, (* "From" *) <<"F","r","o","m">>, (* "Have" *) <<"H","a","v","e">>, (* "Were" *) <<"W","e","r","e">>, (* "Their" *) <<"T","h","e","i","r">>, (* "Which" *) <<"W","h","i","c","h">>, (* "About" *) <<"A","b","o","u","t">>, (* "There" *) <<"T","h","e","r","e">>}

\* the keys of word_counts of extract_potential_topics in insertion order
RECURSIVE topic_word_count_keys(_, _)
topic_word_count_keys(words, seen) ==
    IF words = <<>> THEN <<>>
    ELSE IF Head(words) \in topic_common_words \/ Head(words) \in seen
         THEN topic_word_count_keys(Tail(words), seen)
         ELSE <<Head(words)>> \o topic_word_count_keys(Tail(words), seen \cup {Head(words)})

\* extract_potential_topics without the sort: the words in the order of
\* their first occurrence
extract_potential_topics_unsorted(text) ==
    Take(topic_word_count_keys(findall_capitalized(text), {}), 10)

extract_potential_topics(text) ==
    LET words        == findall_capitalized(text)
        sorted_words == sorted_by_count(topic_word_count_keys(words, {}), words)
    IN  Take(sorted_words, 10)

determine_content_type(text) ==
    LET text_lower == lower(text)
        any(words) == \E k \in 1..Len(words) : Contains(text_lower, words[k])
    IN  IF any(<<(* "algorithm" *) <<"a","l","g","o","r","i","t","h","m">>, (* "code" *) <<"c","o","d","e">>, (* "programming" *) <<"p","r","o","g","r","a","m","m","i","n","g">>, (* "software" *) <<"s","o","f","t","w","a","r","e">>>>) THEN (* "Technology/Programming" *) <<"T","e","c","h","n","o","l","o","g","y","/","P","r","o","g","r","a","m","m","i","n","g">>
        ELSE IF any(<<(* "experiment" *) <<"e","x","p","e","r","i","m","e","n","t">>, (* "research" *) <<"r","e","s","e","a","r","c","h">>, (* "study" *) <<"s","t","u","d","y">>, (* "scientific" *) <<"s","c","i","e","n","t","i","f","i","c">>>>) THEN (* "Scientific/Research" *) <<"S","c","i","e","n","t","i","f","i","c","/","R","e","s","e","a","r","c","h">>
        ELSE IF any(<<(* "historical" *) <<"h","i","s","t","o","r","i","c","a","l">>, (* "century" *) <<"c","e","n","t","u","r","y">>, (* "war" *) <<"w","a","r">>, (* "civilization" *) <<"c","i","v","i","l","i","z","a","t","i","o","n">>>>) THEN (* "Historical" *) <<"H","i","s","t","o","r","i","c","a","l">>
        ELSE IF any(<<(* "business" *) <<"b","u","s","i","n","e","s","s">>, (* "market" *) <<"m","a","r","k","e","t">>, (* "financial" *) <<"f","i","n","a","n","c","i","a","l">>, (* "economic" *) <<"e","c","o","n","o","m","i","c">>>>) THEN (* "Business/Economics" *) <<"B","u","s","i","n","e","s","s","/","E","c","o","n","o","m","i","c","s">>
        ELSE (* "General/Educational" *) <<"G","e","n","e","r","a","l","/","E","d","u","c","a","t","i","o","n","a","l">>

technical_terms == <<(* "algorithm" *) <<"a","l","g","o","r","i","t","h","m">>, (* "protocol" *) <<"p","r","o","t","o","c","o","l">>, (* "architecture" *) <<"a","r","c","h","i","t","e","c","t","u","r","e">>, (* "framework" *) <<"f","r","a","m","e","w","o","r","k">>, (* "syntax" *) <<"s","y","n","t","a","x">>,
                     (* "theorem" *) <<"t","h","e","o","r","e","m">>, (* "hypothesis" *) <<"h","y","p","o","t","h","e","s","i","s">>, (* "methodology" *) <<"m","e","t","h","o","d","o","l","o","g","y">>, (* "quantitative" *) <<"q","u","a","n","t","i","t","a","t","i","v","e">>, (* "analysis" *) <<"a","n","a","l","y","s","i","s">>>>

\* the level for a count of technical terms
technical_level_of(count) ==
    IF count > 10 THEN (* "Advanced Technical" *) <<"A","d","v","a","n","c","e","d"," ","T","e","c","h","n","i","c","a","l">>
    ELSE IF count > 5 THEN (* "Intermediate Technical" *) <<"I","n","t","e","r","m","e","d","i","a","t","e"," ","T","e","c","h","n","i","c","a","l">>
    ELSE IF count > 0 THEN (* "Basic Technical" *) <<"B","a","s","i","c"," ","T","e","c","h","n","i","c","a","l">>
    ELSE (* "Non-Technical" *) <<"N","o","n","-","T","e","c","h","n","i","c","a","l">>

\* sum(1 for term in technical_terms if term in text.lower())
technical_term_count(text) ==
    Cardinality({k \in 1..Len(technical_terms) : Contains(lower(text), technical_terms[k])})

estimate_technical_level(text) == technical_level_of(technical_term_count(text))

\* the list themes of extract_key_themes for one sentence
sentence_themes(sentence) ==
    LET words == split(sentence)
    IN  IF Len(words) > 5
        THEN {words[i] : i \in {i \in 2..Len(words) :
                                   /\ IsUpper(words[i][1])
                                   /\ Len(words[i]) > 3
                                   /\ words[i - 1] \notin {(* "the" *) <<"t","h","e">>, <<"a">>, (* "an" *) <<"a","n">>}}}
        ELSE {}

\* extract_key_themes(text): list(set(themes)) lists the set in the order of
\* the hashes of the strings, which differs from run to run, so the list is
\* given as the set it is drawn from and its length
extract_key_themes(text) ==
    LET sentences == Take(re_split_sentences(text), 50)
        themes    == UNION {sentence_themes(sentences[j]) : j \in 1..Len(sentences)}
    IN  [drawn_from |-> themes, length |-> Min(Cardinality(themes), 10)]

\* round(numerator / denominator, 2) in hundredths; a tie goes to the even
\* hundredth
round2(numerator, denominator) ==
    LET q == (100 * numerator) \div denominator
        r == (100 * numerator) % denominator
    IN  IF 2 * r > denominator \/ (2 * r = denominator /\ q % 2 = 1) THEN q + 1 ELSE q

analyze_pdf_content(text, page_texts) ==
    LET words            == split(text)
        sentences        == re_split_sentences(text)
        potential_topics == extract_potential_topics(text)
        word_lengths     == Sum([k \in 1..Len(words) |-> Len(words[k])])
        \* avg_word_length > 5 and avg_sentence_length > 15; avg_word_length > 4
        long_words       == words # <<>> /\ word_lengths > 5 * Len(words)
        long_sentences   == sentences # <<>> /\ Len(words) > 15 * Len(sentences)
        longish_words    == words # <<>> /\ word_lengths > 4 * Len(words)
    IN  [statistics |->
            [totalPages            |-> Len(page_texts),
             totalWords            |-> Len(words),
             totalSentences        |-> Len(sentences),
             averageWordLength     |-> IF words # <<>> THEN round2(word_lengths, Len(words)) ELSE 0,
             averageSentenceLength |-> IF sentences # <<>> THEN round2(Len(words), Len(sentences)) ELSE 0],
         contentAnalysis |->
            [type           |-> determine_content_type(text),
             complexity     |-> IF long_words /\ long_sentences THEN (* "high" *) <<"h","i","g","h">>
                                ELSE IF longish_words THEN (* "medium" *) <<"m","e","d","i","u","m">> ELSE (* "low" *) <<"l","o","w">>,
             technicalLevel |-> estimate_technical_level(text)],
         potentialQuizTopics |-> Take(potential_topics, 5),
         keyThemes           |-> [extract_key_themes(text) EXCEPT !.length = Min(@, 5)]]


---------------------------------------------------------------------------
(* The heap.  Every dict is an object with an address (its index in the   *)
(* heap), so that  quiz.copy(), a shallow copy, shares the question dicts *)
(* and the metadata dict with the dict it copies.  In a quiz dict on the  *)
(* heap "questions" is the list of the question dicts' addresses and      *)
(* "metadata" the metadata dict's address.                                 *)

\* the heap with a quiz given as a value added: its question dicts, then its
\* metadata dict, then the quiz dict itself, whose address is the new length
StoreQuiz(h, quiz) ==
    LET questions == Get(quiz, "questions", <<>>)
        h1 == h \o questions
        h2 == IF "metadata" \in DOMAIN quiz THEN Append(h1, quiz["metadata"]) ELSE h1
        obj == [k \in DOMAIN quiz |->
                  IF k = "questions" THEN [j \in 1..Len(questions) |-> Len(h) + j]
                  ELSE IF k = "metadata" THEN Len(h2)
                  ELSE quiz[k]]
    IN  Append(h2, obj)

\* the quiz at address a as a value: what a caller holding a sees
Deep(h, a) ==
    [k \in DOMAIN h[a] |->
        IF k = "questions" THEN [j \in 1..Len(h[a][k]) |-> h[h[a][k][j]]]
        ELSE IF k = "metadata" THEN h[h[a][k]]
        ELSE h[a][k]]

---------------------------------------------------------------------------
(* enhance_quiz_content and enhance_quiz_comprehensively.  Each takes the *)
(* heap and the address of its argument and gives the heap it leaves and  *)
(* the address it returns.                                                 *)

s_explanations == (* "explanations" *) <<"e","x","p","l","a","n","a","t","i","o","n","s">>

s_difficulty == (* "difficulty" *) <<"d","i","f","f","i","c","u","l","t","y">>

s_comprehensive == (* "comprehensive" *) <<"c","o","m","p","r","e","h","e","n","s","i","v","e">>

\* an 'explanations' loop body that writes the generated explanation whether
\* or not the question has one
explanations_step_overwrite(q, quiz_title) ==
    SetKey(q, "explanation",
           create_detailed_explanation(quiz_title, (* "key concept" *) <<"k","e","y"," ","c","o","n","c","e","p","t">>, Get(q, "difficulty", s_medium)))

\* the body of the 'explanations' loop for the question dict q
explanations_step(q, quiz_title) ==
    IF "explanation" \notin DOMAIN q \/ q["explanation"] = <<>>
    THEN SetKey(q, "explanation",
                create_detailed_explanation(quiz_title, (* "key concept" *) <<"k","e","y"," ","c","o","n","c","e","p","t">>, Get(q, "difficulty", s_medium)))
    ELSE q

\* the 'difficulty' loop body that keeps the values a question already has
difficulty_step_setdefault(q, i) ==
    LET d == IF i % 3 = 0 THEN [difficulty |-> s_easy, points |-> 100, timeLimit |-> 30]
             ELSE IF i % 3 = 1 THEN [difficulty |-> s_medium, points |-> 150, timeLimit |-> 45]
             ELSE [difficulty |-> s_hard, points |-> 200, timeLimit |-> 60]
    IN  Merge(d, q)

\* the body of the 'difficulty' loop for the question dict q at position i
difficulty_step(q, i) ==
    IF i % 3 = 0
    THEN SetKey(SetKey(SetKey(q, "difficulty", s_easy), "points", 100), "timeLimit", 30)
    ELSE IF i % 3 = 1
         THEN SetKey(SetKey(SetKey(q, "difficulty", s_medium), "points", 150), "timeLimit", 45)
         ELSE SetKey(SetKey(SetKey(q, "difficulty", s_hard), "points", 200), "timeLimit", 60)

\* enhance_explanation with the comparison <= 10: an explanation of exactly
\* 10 words is elaborated too
enhance_explanation_ten_or_fewer(explanation) ==
    IF split_len(explanation) <= 10
    THEN explanation \o (* " This understanding is crucial for building a comprehensive knowledge base and applying concepts in practical scenarios." *) <<" ","T","h","i","s"," ","u","n","d","e","r","s","t","a","n","d","i","n","g"," ","i","s"," ","c","r","u","c","i","a","l"," ","f","o","r"," ","b","u","i","l","d","i","n","g"," ","a"," ","c","o","m","p","r","e","h","e","n","s","i","v","e"," ","k","n","o","w","l","e","d","g","e"," ","b","a","s","e"," ","a","n","d"," ","a","p","p","l","y","i","n","g"," ","c","o","n","c","e","p","t","s"," ","i","n"," ","p","r","a","c","t","i","c","a","l"," ","s","c","e","n","a","r","i","o","s",".">>
    ELSE explanation

enhance_explanation(explanation) ==
    IF split_len(explanation) < 10
    THEN explanation \o (* " This understanding is crucial for building a comprehensive knowledge base and applying concepts in practical scenarios." *) <<" ","T","h","i","s"," ","u","n","d","e","r","s","t","a","n","d","i","n","g"," ","i","s"," ","c","r","u","c","i","a","l"," ","f","o","r"," ","b","u","i","l","d","i","n","g"," ","a"," ","c","o","m","p","r","e","h","e","n","s","i","v","e"," ","k","n","o","w","l","e","d","g","e"," ","b","a","s","e"," ","a","n","d"," ","a","p","p","l","y","i","n","g"," ","c","o","n","c","e","p","t","s"," ","i","n"," ","p","r","a","c","t","i","c","a","l"," ","s","c","e","n","a","r","i","o","s",".">>
    ELSE explanation

\* the body of the loop appending the elaboration sentence to every
\* explanation, whatever its length
comprehensive_step_always_elaborates(q, i, enhanced) ==
    LET q1 == IF "educationalTip" \notin DOMAIN q
              THEN SetKey(q, "educationalTip",
                          generate_educational_tip(Get(enhanced, "title", (* "topic" *) <<"t","o","p","i","c">>),
                                                   (* "concept " *) <<"c","o","n","c","e","p","t"," ">> \o IntToStr(i + 1)))
              ELSE q
        q2 == IF "tags" \notin DOMAIN q1
              THEN SetKey(q1, "tags", << lower(Get(enhanced, "category", (* "general" *) <<"g","e","n","e","r","a","l">>)),
                                         Get(q1, "difficulty", s_medium),
                                         (* "question_" *) <<"q","u","e","s","t","i","o","n","_">> \o IntToStr(i + 1) >>)
              ELSE q1
    IN  IF "explanation" \in DOMAIN q2
        THEN SetKey(q2, "explanation", q2["explanation"]
                \o (* " This understanding is crucial for building a comprehensive knowledge base and applying concepts in practical scenarios." *) <<" ","T","h","i","s"," ","u","n","d","e","r","s","t","a","n","d","i","n","g"," ","i","s"," ","c","r","u","c","i","a","l"," ","f","o","r"," ","b","u","i","l","d","i","n","g"," ","a"," ","c","o","m","p","r","e","h","e","n","s","i","v","e"," ","k","n","o","w","l","e","d","g","e"," ","b","a","s","e"," ","a","n","d"," ","a","p","p","l","y","i","n","g"," ","c","o","n","c","e","p","t","s"," ","i","n"," ","p","r","a","c","t","i","c","a","l"," ","s","c","e","n","a","r","i","o","s",".">>)
        ELSE q2

\* the body of the loop of enhance_quiz_comprehensively for the question dict
\* q at position i of the quiz dict enhanced
comprehensive_step(q, i, enhanced) ==
    LET q1 == IF "educationalTip" \notin DOMAIN q
              THEN SetKey(q, "educationalTip",
                          generate_educational_tip(Get(enhanced, "title", (* "topic" *) <<"t","o","p","i","c">>),
                                                   (* "concept " *) <<"c","o","n","c","e","p","t"," ">> \o IntToStr(i + 1)))
              ELSE q
        q2 == IF "tags" \notin DOMAIN q1
              THEN SetKey(q1, "tags", << lower(Get(enhanced, "category", (* "general" *) <<"g","e","n","e","r","a","l">>)),
                                         Get(q1, "difficulty", s_medium),
                                         (* "question_" *) <<"q","u","e","s","t","i","o","n","_">> \o IntToStr(i + 1) >>)
              ELSE q1
    IN  IF "explanation" \in DOMAIN q2
        THEN SetKey(q2, "explanation", enhance_explanation(q2["explanation"]))
        ELSE q2

\* the body of the question loop of the given mode for the question dict q
\* at position i; quiz is the dict the body reads the title or category from
loop_body(q, i, mode, quiz) ==
    IF mode = s_explanations THEN explanations_step(q, Get(quiz, "title", (* "topic" *) <<"t","o","p","i","c">>))
    ELSE IF mode = s_difficulty THEN difficulty_step(q, i)
    ELSE comprehensive_step(q, i, quiz)

\* for i, question in enumerate(questions): the question dicts at the
\* addresses qs, from the k-th on, rewritten in place by the loop body of
\* the given mode
RECURSIVE questions_loop(_, _, _, _, _)
questions_loop(h, qs, k, mode, quiz) ==
    IF k > Len(qs) THEN h
    ELSE Let([h EXCEPT ![qs[k]] = loop_body(@, k - 1, mode, quiz)],
             LAMBDA h1 : questions_loop(h1, qs, k + 1, mode, quiz))

\* the quiz dict enhanced of enhance_quiz_comprehensively before its loop:
\* the copy with its title, description and learningObjectives set
comprehensive_header(copy) ==
    LET e1 == IF "title" \in DOMAIN copy
              THEN SetKey(copy, "title", (* "Enhanced: " *) <<"E","n","h","a","n","c","e","d",":"," ">> \o copy["title"]) ELSE copy
        e2 == IF "description" \in DOMAIN e1
              THEN SetKey(e1, "description", e1["description"]
                     \o (* "\n\nThis quiz has been enhanced with additional explanations, varied difficulty levels, and educational tips." *) <<"\n","\n","T","h","i","s"," ","q","u","i","z"," ","h","a","s"," ","b","e","e","n"," ","e","n","h","a","n","c","e","d"," ","w","i","t","h"," ","a","d","d","i","t","i","o","n","a","l"," ","e","x","p","l","a","n","a","t","i","o","n","s",","," ","v","a","r","i","e","d"," ","d","i","f","f","i","c","u","l","t","y"," ","l","e","v","e","l","s",","," ","a","n","d"," ","e","d","u","c","a","t","i","o","n","a","l"," ","t","i","p","s",".">>)
              ELSE e1
    IN  IF "learningObjectives" \notin DOMAIN e2
        THEN SetKey(e2, "learningObjectives",
               generate_learning_objectives(
                   strip(replace(replace(Get(e2, "title", <<>>), (* "Quiz" *) <<"Q","u","i","z">>, <<>>), (* "quiz" *) <<"q","u","i","z">>, <<>>)), 3))
        ELSE e2

\* the last lines of enhance_quiz_comprehensively: a new metadata dict is
\* built from the old one and the quiz dict enhanced is returned
comprehensive_tail(h1, enhanced, now) ==
    LET old_metadata == IF "metadata" \in DOMAIN enhanced THEN h1[enhanced["metadata"]] ELSE EmptyDict
        new_metadata == Merge(old_metadata,
                              [comprehensivelyEnhanced |-> TRUE,
                               enhancementDate         |-> now,
                               totalEnhancements       |-> Len(Get(enhanced, "questions", <<>>)),
                               aiEnhanced              |-> TRUE])
    IN  [heap |-> h1 \o <<new_metadata, SetKey(enhanced, "metadata", Len(h1) + 1)>>,
         ret  |-> Len(h1) + 2]

\* enhance_quiz_comprehensively(quiz) at time now
enhance_quiz_comprehensively(h, quiz, now) ==
    Let(comprehensive_header(h[quiz]), LAMBDA enhanced :
    Let(questions_loop(h, Get(enhanced, "questions", <<>>), 1, s_comprehensive, enhanced), LAMBDA h1 :
        comprehensive_tail(h1, enhanced, now)))

\* the last lines of enhance_quiz_content without the creation of the
\* metadata dict: stamping a quiz that has none raises KeyError, and no quiz
\* is returned (address 0)
stamp_metadata_no_create(h, enhanced, enhancement_type, now) ==
    IF "metadata" \notin DOMAIN h[enhanced]
    THEN [heap |-> h, ret |-> 0]
    ELSE [heap |-> [h EXCEPT ![h[enhanced]["metadata"]] =
                      Merge(@, [enhancedAt          |-> now,
                                enhancementType     |-> enhancement_type,
                                enhancementProvider |-> (* "quizito_ai" *) <<"q","u","i","z","i","t","o","_","a","i">>])],
          ret  |-> enhanced]

\* the last lines of enhance_quiz_content: the metadata dict of the quiz at
\* address enhanced is created when the quiz has none, and stamped
stamp_metadata(h, enhanced, enhancement_type, now) ==
    Let(IF "metadata" \notin DOMAIN h[enhanced]
        THEN Append([h EXCEPT ![enhanced] = SetKey(@, "metadata", Len(h) + 1)], EmptyDict)
        ELSE h,
        LAMBDA h2 :
            [heap |-> [h2 EXCEPT ![h2[enhanced]["metadata"]] =
                          Merge(@, [enhancedAt          |-> now,
                                    enhancementType     |-> enhancement_type,
                                    enhancementProvider |-> (* "quizito_ai" *) <<"q","u","i","z","i","t","o","_","a","i">>])],
             ret  |-> enhanced])

\* enhance_quiz_content taking every type that is neither 'explanations' nor
\* 'difficulty' for 'comprehensive'
enhance_quiz_content_else_comprehensive(h, quiz, enhancement_type, now) ==
    Let(Append(h, h[quiz]), LAMBDA h0 :
    Let(IF enhancement_type \in {s_explanations, s_difficulty}
        THEN [heap |-> questions_loop(h0, Get(h0[Len(h0)], "questions", <<>>), 1, enhancement_type, h0[quiz]),
              ret  |-> Len(h0)]
        ELSE enhance_quiz_comprehensively(h0, quiz, now),
        LAMBDA r : stamp_metadata(r.heap, r.ret, enhancement_type, now)))

\* enhance_quiz_content(quiz, enhancement_type) at time now
enhance_quiz_content(h, quiz, enhancement_type, now) ==
    \* enhanced = quiz.copy()
    Let(Append(h, h[quiz]), LAMBDA h0 :
    Let(IF enhancement_type \in {s_explanations, s_difficulty}
        THEN [heap |-> questions_loop(h0, Get(h0[Len(h0)], "questions", <<>>), 1, enhancement_type, h0[quiz]),
              ret  |-> Len(h0)]
        ELSE IF enhancement_type = s_comprehensive
             THEN enhance_quiz_comprehensively(h0, quiz, now)
             ELSE [heap |-> h0, ret |-> Len(h0)],
        LAMBDA r : stamp_metadata(r.heap, r.ret, enhancement_type, now)))

---------------------------------------------------------------------------
(* The pure-function harness: a topic and a count are drawn, then each    *)
(* function is applied to them.                                            *)

TopicAlphabet == {"a", "i", "w", "r", "A"}

RECURSIVE StringsUpTo(_)
StringsUpTo(n) ==
    IF n = 0 THEN {<<>>}
    ELSE LET shorter == StringsUpTo(n - 1)
         IN  shorter \cup {Append(t, c) : t \in shorter, c \in TopicAlphabet}

NamedTopics == {
    (* "Python programming" *) <<"P","y","t","h","o","n"," ","p","r","o","g","r","a","m","m","i","n","g">>, (* "medical software" *) <<"m","e","d","i","c","a","l"," ","s","o","f","t","w","a","r","e">>, (* "math war" *) <<"m","a","t","h"," ","w","a","r">>, (* "Marketing math" *) <<"M","a","r","k","e","t","i","n","g"," ","m","a","t","h">>,
    (* "World War II" *) <<"W","o","r","l","d"," ","W","a","r"," ","I","I">>, (* "Economics" *) <<"E","c","o","n","o","m","i","c","s">>, (* "Spain" *) <<"S","p","a","i","n">>, (* "Cooking" *) <<"C","o","o","k","i","n","g">>, (* "MACHINE LEARNING" *) <<"M","A","C","H","I","N","E"," ","L","E","A","R","N","I","N","G">> }

PureTopics == StringsUpTo(MaxTopicLen) \cup NamedTopics

\* the harness before it is used
PureIdle ==
    /\ p_topic = <<>>
    /\ p_n = 0
    /\ p_done = {}
    /\ p_category = <<>>
    /\ p_aspects = <<>>

PureInit ==
    /\ p_topic \in PureTopics
    /\ p_n \in 0..MaxAspects
    /\ p_done = {}
    /\ p_category = <<>>
    /\ p_aspects = <<>>

CallCategorizeTopic ==
    /\ "categorize_topic" \notin p_done
    /\ p_category' = categorize_topic(p_topic)
    /\ p_done' = p_done \cup {"categorize_topic"}
    /\ UNCHANGED <<p_topic, p_n, p_aspects>>

CallGenerateAspects ==
    /\ "generate_aspects_from_topic" \notin p_done
    /\ p_aspects' = generate_aspects_from_topic(p_topic, p_n)
    /\ p_done' = p_done \cup {"generate_aspects_from_topic"}
    /\ UNCHANGED <<p_topic, p_n, p_category>>

PureNext ==
    \/ (CallCategorizeTopic /\ UNCHANGED coreVars /\ UNCHANGED concVars /\ UNCHANGED handlerVars /\ UNCHANGED textVars /\ UNCHANGED assignVars)
    \/ (CallGenerateAspects /\ UNCHANGED coreVars /\ UNCHANGED concVars /\ UNCHANGED handlerVars /\ UNCHANGED textVars /\ UNCHANGED assignVars)


---------------------------------------------------------------------------
(* One client of the core: it has a quiz generated by the fallback        *)
(* generator, or brings a quiz of its own (the JSON body of               *)
(* /enhance-quiz), and has it enhanced, each time passing the quiz the    *)
(* previous call returned.                                                 *)

CoreTopics == {(* "ai" *) <<"a","i">>, (* "art" *) <<"a","r","t">>}

Difficulties == {s_easy, s_medium, s_hard, (* "expert" *) <<"e","x","p","e","r","t">>}

CoreContexts == {<<>>, (* "Quiz data, quiz!" *) <<"Q","u","i","z"," ","d","a","t","a",","," ","q","u","i","z","!">>}

Modes == {s_explanations, s_difficulty, s_comprehensive}

\* the question at position i (0-based) of a client's quiz of the given shape
ClientQuestion(shape, i) ==
    LET base == [question |-> <<"Q">> \o IntToStr(i), options |-> <<<<"a">>, <<"b">>, <<"c">>, <<"d">>>>,
                 correctAnswer |-> i % 4]
    IN  IF shape = "full"
        THEN Merge(base, [type |-> (* "multiple-choice" *) <<"m","u","l","t","i","p","l","e","-","c","h","o","i","c","e">>, explanation |-> (* "Because." *) <<"B","e","c","a","u","s","e",".">>, points |-> 200,
                          timeLimit |-> 60, difficulty |-> s_hard, category |-> (* "Science" *) <<"S","c","i","e","n","c","e">>,
                          tags |-> <<<<"t">>>>, educationalTip |-> (* "Tip." *) <<"T","i","p",".">>])
        ELSE IF shape = "bare" THEN base
        ELSE IF i % 3 = 0
             THEN Merge(base, [explanation |-> <<>>, difficulty |-> s_hard, points |-> 999, timeLimit |-> 5])
             ELSE IF i % 3 = 1
                  THEN Merge(base, [explanation |-> (* "a b c d e f g h i j" *) <<"a"," ","b"," ","c"," ","d"," ","e"," ","f"," ","g"," ","h"," ","i"," ","j">>])
                  ELSE Merge(base, [difficulty |-> s_easy, points |-> 100, timeLimit |-> 30])

\* a client's quiz of n questions
ClientQuiz(shape, n) ==
    LET questions == [k \in 1..n |-> ClientQuestion(shape, k - 1)]
    IN  IF shape = "full"
        THEN [title |-> (* "Math Quiz" *) <<"M","a","t","h"," ","Q","u","i","z">>, description |-> (* "Sums." *) <<"S","u","m","s",".">>, category |-> (* "Mathematics" *) <<"M","a","t","h","e","m","a","t","i","c","s">>,
              difficulty |-> s_hard, totalPoints |-> 200 * n, learningObjectives |-> <<(* "Add" *) <<"A","d","d">>>>,
              questions |-> questions, tags |-> <<(* "math" *) <<"m","a","t","h">>>>, metadata |-> [source |-> (* "upload" *) <<"u","p","l","o","a","d">>]]
        ELSE IF shape = "bare" THEN [questions |-> questions]
        ELSE [title |-> (* "A quiz on Quizzes" *) <<"A"," ","q","u","i","z"," ","o","n"," ","Q","u","i","z","z","e","s">>, category |-> (* "History" *) <<"H","i","s","t","o","r","y">>, questions |-> questions]

ClientQuizzes == {ClientQuiz(shape, n) : shape \in {"full", "bare", "mixed"}, n \in 0..MaxClientQuestions}

NoCall == [mode |-> <<>>, arg |-> 0, before |-> EmptyDict, ret |-> 0]

NoGen == [topic |-> <<>>, difficulty |-> <<>>, num_questions |-> 0, quiz_type |-> <<>>, context |-> <<>>]

CoreInit ==
    /\ heap = <<>>
    /\ rng \in 0..(RngStates - 1)
    /\ clock = 0
    /\ origin = "none"
    /\ gen = NoGen
    /\ cur = 0
    /\ calls = <<>>
    /\ last = NoCall

\* a call of generate_enhanced_fallback_quiz
CallGenerateFallbackQuiz ==
    /\ cur = 0
    /\ \E topic \in CoreTopics, difficulty \in Difficulties, num_questions \in 1..MaxQuestions,
          context \in CoreContexts :
          LET quiz_type == (* "multiple-choice" *) <<"m","u","l","t","i","p","l","e","-","c","h","o","i","c","e">>
              quiz == generate_enhanced_fallback_quiz(topic, difficulty, num_questions, quiz_type, context, rng)
          IN  /\ heap' = StoreQuiz(heap, quiz)
              /\ cur' = Len(heap')
              /\ rng' = rng_after(rng, num_questions)
              /\ gen' = [topic |-> topic, difficulty |-> difficulty, num_questions |-> num_questions,
                         quiz_type |-> quiz_type, context |-> context]
    /\ origin' = "fallback"
    /\ UNCHANGED <<clock, calls, last>>

\* a quiz arrives in a request body
ReceiveQuiz ==
    /\ cur = 0
    /\ \E quiz \in ClientQuizzes :
          /\ heap' = StoreQuiz(heap, quiz)
          /\ cur' = Len(heap')
    /\ origin' = "client"
    /\ UNCHANGED <<rng, clock, gen, calls, last>>

\* a call of enhance_quiz_content on the quiz the client holds
CallEnhanceQuizContent ==
    /\ cur # 0
    /\ Len(calls) < MaxEnhance
    /\ \E mode \in Modes :
          \E r \in {enhance_quiz_content(heap, cur, mode, clock)} :
              /\ heap' = r.heap
              /\ cur' = r.ret
              /\ calls' = Append(calls, mode)
              /\ last' = [mode |-> mode, arg |-> cur, before |-> Deep(heap, cur), ret |-> r.ret]
    /\ clock' = clock + 1
    /\ UNCHANGED <<rng, origin, gen>>

CoreNext ==
    \/ (CallGenerateFallbackQuiz /\ UNCHANGED pureVars /\ UNCHANGED concVars /\ UNCHANGED handlerVars /\ UNCHANGED textVars /\ UNCHANGED assignVars)
    \/ (ReceiveQuiz /\ UNCHANGED pureVars /\ UNCHANGED concVars /\ UNCHANGED handlerVars /\ UNCHANGED textVars /\ UNCHANGED assignVars)
    \/ (CallEnhanceQuizContent /\ UNCHANGED pureVars /\ UNCHANGED concVars /\ UNCHANGED handlerVars /\ UNCHANGED textVars /\ UNCHANGED assignVars)

\* the client's state before there is a client
CoreIdle ==
    /\ heap = <<>>
    /\ rng = 0
    /\ clock = 0
    /\ origin = "none"
    /\ gen = NoGen
    /\ cur = 0
    /\ calls = <<>>
    /\ last = NoCall


---------------------------------------------------------------------------
(* Two requests handled at the same time, each in its own thread: a call  *)
(* of generate_enhanced_fallback_quiz, or a call of enhance_quiz_content  *)
(* on the quiz of the request's body.  The threads share the process: the *)
(* heap, the generator of np.random, the clock and the client handle.     *)
(* One iteration of a question loop is one step.                          *)

Threads == {1, 2}

ConcTopics == {(* "ai" *) <<"a","i">>}

ConcDifficulties == {s_easy, s_hard}

ConcSeeds == {r \in 0..(RngStates - 1) : r % 4 = 1}

ConcQuizzes == {ClientQuiz("mixed", n) : n \in 1..MaxQuestions}

NoFrame == [quiz |-> 0, mode |-> <<>>, input |-> EmptyDict, enhanced |-> 0, header |-> EmptyDict, i |-> 0, now |-> 0]

ConcInit ==
    /\ heap = <<>>
    /\ clock = 0
    /\ rng \in ConcSeeds
    /\ seed = rng
    /\ client \in BOOLEAN
    /\ t_pc = [t \in Threads |-> "idle"]
    /\ t_args = [t \in Threads |-> NoGen]
    /\ t_questions = [t \in Threads |-> <<>>]
    /\ t_frame = [t \in Threads |-> NoFrame]
    /\ t_result = [t \in Threads |-> EmptyDict]

\* the call of generate_enhanced_fallback_quiz: the arguments are bound
ThreadCall(t) ==
    /\ t_pc[t] = "idle"
    /\ \E topic \in ConcTopics, difficulty \in ConcDifficulties, num_questions \in 1..MaxQuestions :
          t_args' = [t_args EXCEPT ![t] =
                        [topic |-> topic, difficulty |-> difficulty, num_questions |-> num_questions,
                         quiz_type |-> (* "multiple-choice" *) <<"m","u","l","t","i","p","l","e","-","c","h","o","i","c","e">>, context |-> <<>>]]
    /\ t_pc' = [t_pc EXCEPT ![t] = "generate"]
    /\ UNCHANGED <<heap, clock, rng, seed, client, t_questions, t_frame, t_result>>

\* one iteration of  for i in range(num_questions)
ThreadLoopStep(t) ==
    /\ t_pc[t] = "generate"
    /\ Len(t_questions[t]) < t_args[t].num_questions
    /\ LET a == t_args[t]
           aspects == generate_aspects_from_topic(a.topic, a.num_questions)
       IN  t_questions' = [t_questions EXCEPT ![t] =
               Append(@, fallback_question(a.topic, a.difficulty, a.quiz_type, aspects, Len(@), rng))]
    /\ rng' = rng_advance(rng)
    /\ UNCHANGED <<heap, clock, seed, client, t_pc, t_args, t_frame, t_result>>

\* the loop is over: quiz_data is built and returned
ThreadReturn(t) ==
    /\ t_pc[t] = "generate"
    /\ Len(t_questions[t]) = t_args[t].num_questions
    /\ LET a == t_args[t]
           keywords == IF a.context # <<>> THEN extract_keywords_from_context(a.context) ELSE <<>>
       IN  t_result' = [t_result EXCEPT ![t] =
               fallback_quiz_data(a.topic, a.difficulty, a.num_questions, keywords, t_questions[t])]
    /\ t_pc' = [t_pc EXCEPT ![t] = "done"]
    /\ UNCHANGED <<heap, clock, rng, seed, client, t_args, t_questions, t_frame>>

\* the call of enhance_quiz_content on the quiz of a request body, up to the
\* question loop: the body is parsed, the quiz dict is copied and, in
\* 'comprehensive' mode, enhance_quiz_comprehensively sets its title,
\* description and learningObjectives
ThreadEnhanceCall(t) ==
    /\ t_pc[t] = "idle"
    /\ \E input \in ConcQuizzes, mode \in Modes :
          \E h \in {StoreQuiz(heap, input)} :
              /\ heap' = Append(h, h[Len(h)])
              /\ t_frame' = [t_frame EXCEPT ![t] =
                               [quiz |-> Len(h), mode |-> mode, input |-> input, enhanced |-> Len(h) + 1,
                                header |-> IF mode = s_comprehensive
                                           THEN comprehensive_header(h[Len(h)]) ELSE h[Len(h)],
                                i |-> 0, now |-> 0]]
    /\ t_pc' = [t_pc EXCEPT ![t] = "enhance"]
    /\ UNCHANGED <<clock, rng, seed, client, t_args, t_questions, t_result>>

\* one iteration of  for i, question in enumerate(enhanced.get('questions', []))
ThreadEnhanceQuestion(t) ==
    /\ t_pc[t] = "enhance"
    /\ LET f == t_frame[t]
           qs == Get(f.header, "questions", <<>>)
       IN  /\ f.i < Len(qs)
           /\ heap' = [heap EXCEPT ![qs[f.i + 1]] = loop_body(@, f.i, f.mode, f.header)]
           /\ t_frame' = [t_frame EXCEPT ![t].i = f.i + 1]
    /\ UNCHANGED <<clock, rng, seed, client, t_pc, t_args, t_questions, t_result>>

\* the loop is over: the metadata is stamped and the quiz returned
ThreadEnhanceReturn(t) ==
    /\ t_pc[t] = "enhance"
    /\ LET f == t_frame[t]
       IN  /\ f.i = Len(Get(f.header, "questions", <<>>))
           /\ \E c \in {IF f.mode = s_comprehensive
                        THEN comprehensive_tail(heap, f.header, clock)
                        ELSE [heap |-> heap, ret |-> f.enhanced]} :
                 \E r \in {stamp_metadata(c.heap, c.ret, f.mode, clock)} :
                     /\ heap' = r.heap
                     /\ t_result' = [t_result EXCEPT ![t] = Deep(r.heap, r.ret)]
                     /\ t_frame' = [t_frame EXCEPT ![t].now = clock, ![t].enhanced = r.ret]
    /\ clock' = clock + 1
    /\ t_pc' = [t_pc EXCEPT ![t] = "done"]
    /\ UNCHANGED <<rng, seed, client, t_args, t_questions>>

ConcNext ==
    \E t \in Threads :
        \/ (ThreadCall(t) /\ UNCHANGED pureVars /\ UNCHANGED sessionVars /\ UNCHANGED handlerVars /\ UNCHANGED textVars /\ UNCHANGED assignVars)
        \/ (ThreadLoopStep(t) /\ UNCHANGED pureVars /\ UNCHANGED sessionVars /\ UNCHANGED handlerVars /\ UNCHANGED textVars /\ UNCHANGED assignVars)
        \/ (ThreadReturn(t) /\ UNCHANGED pureVars /\ UNCHANGED sessionVars /\ UNCHANGED handlerVars /\ UNCHANGED textVars /\ UNCHANGED assignVars)
        \/ (ThreadEnhanceCall(t) /\ UNCHANGED pureVars /\ UNCHANGED sessionVars /\ UNCHANGED handlerVars /\ UNCHANGED textVars /\ UNCHANGED assignVars)
        \/ (ThreadEnhanceQuestion(t) /\ UNCHANGED pureVars /\ UNCHANGED sessionVars /\ UNCHANGED handlerVars /\ UNCHANGED textVars /\ UNCHANGED assignVars)
        \/ (ThreadEnhanceReturn(t) /\ UNCHANGED pureVars /\ UNCHANGED sessionVars /\ UNCHANGED handlerVars /\ UNCHANGED textVars /\ UNCHANGED assignVars)

\* the session of the single client before there is one
SessionIdle ==
    /\ origin = "none"
    /\ gen = NoGen
    /\ cur = 0
    /\ calls = <<>>
    /\ last = NoCall

---------------------------------------------------------------------------
(* The reply of the LLM.  What json.loads returns is a value of any JSON  *)
(* type, so each value carries its Python type: t is the type and v the   *)
(* value (a dict is a function from keys to values, a list a sequence).   *)
(* JSON numbers with a fraction are left out of the replies.              *)

JStr(s) == [t |-> "str", v |-> s]

JInt(n) == [t |-> "int", v |-> n]

JBool(b) == [t |-> "bool", v |-> b]

JNone == [t |-> "NoneType", v |-> 0]

JList(l) == [t |-> "list", v |-> l]

JDict(d) == [t |-> "dict", v |-> d]

\* a float, kept in tenths
JFloat(tenths) == [t |-> "float", v |-> tenths]

\* d.get(key, default) on a dict of typed values
JGet(j, key, default) == IF key \in DOMAIN j.v THEN j.v[key] ELSE default

\* d.setdefault(key, value)
SetDefault(d, key, value) == IF key \in DOMAIN d THEN d ELSE SetKey(d, key, value)

\* what is sent for a typed value: the value without the types
RECURSIVE FromJson(_)
FromJson(j) ==
    IF j.t = "dict" THEN [k \in DOMAIN j.v |-> FromJson(j.v[k])]
    ELSE IF j.t = "list" THEN [k \in 1..Len(j.v) |-> FromJson(j.v[k])]
    ELSE j.v

\* for q in j  goes through without an exception when every q is a dict:
\* j is a list of dicts, or an empty dict or str (iterating a dict gives its
\* keys and iterating a str its characters, which have neither .get nor
\* .setdefault); any other type is not iterable
iterates_over_dicts(j) ==
    \/ j.t = "list" /\ \A k \in 1..Len(j.v) : j.v[k].t = "dict"
    \/ j.t = "dict" /\ DOMAIN j.v = {}
    \/ j.t = "str" /\ j.v = <<>>

\* the dicts  for q in j  goes through
question_dicts(j) == IF j.t = "list" THEN j.v ELSE <<>>

\* sum() adds ints and bools; a str, a list, a dict or None is a TypeError
summable(p) == p.t \in {"int", "bool"}

number(p) == IF p.t = "bool" THEN (IF p.v THEN 1 ELSE 0) ELSE p.v

\* the body of the loop of enhance_quiz_data for the question dict at position i
enhance_question_data(question, i, topic, difficulty, quiz_type) ==
    LET q1 == SetDefault(question.v, "type", JStr(quiz_type))
        q2 == SetDefault(q1, "points",
                  JInt(IF difficulty = s_easy THEN 100 ELSE IF difficulty = s_medium THEN 150 ELSE 200))
        q3 == SetDefault(q2, "timeLimit",
                  JInt(IF difficulty = s_easy THEN 30 ELSE IF difficulty = s_medium THEN 45 ELSE 60))
        q4 == SetDefault(q3, "difficulty", JStr(difficulty))
        q5 == SetDefault(q4, "explanation", JStr((* "Refer to course materials for detailed explanation." *) <<"R","e","f","e","r"," ","t","o"," ","c","o","u","r","s","e"," ","m","a","t","e","r","i","a","l","s"," ","f","o","r"," ","d","e","t","a","i","l","e","d"," ","e","x","p","l","a","n","a","t","i","o","n",".">>))
    IN  JDict(IF "educationalTip" \notin DOMAIN q5
              THEN SetKey(q5, "educationalTip",
                          JStr(generate_educational_tip(topic, (* "concept " *) <<"c","o","n","c","e","p","t"," ">> \o IntToStr(i + 1))))
              ELSE q5)

\* enhance_quiz_data(quiz_data, topic, difficulty, num_questions, quiz_type)
\* at time now: whether it raises and, when it does not, what it returns
enhance_quiz_data(quiz_data, topic, difficulty, num_questions, quiz_type, now) ==
    IF quiz_data.t # "dict"
    THEN \* .copy() or .setdefault() is an AttributeError
         [raised |-> TRUE, value |-> JNone]
    ELSE
    LET e1 == SetDefault(quiz_data.v, "title", JStr(topic \o (* " Quiz" *) <<" ","Q","u","i","z">>))
        e2 == SetDefault(e1, "description", JStr((* "Test your knowledge about " *) <<"T","e","s","t"," ","y","o","u","r"," ","k","n","o","w","l","e","d","g","e"," ","a","b","o","u","t"," ">> \o topic))
        e3 == SetDefault(e2, "category", JStr(categorize_topic(topic)))
        e4 == SetDefault(e3, "difficulty", JStr(difficulty))
        e5 == SetDefault(e4, "estimatedTime", JFloat(num_questions * 8))
        questions == IF "questions" \in DOMAIN e5 THEN e5["questions"] ELSE JList(<<>>)
        qs == question_dicts(questions)
        points == [k \in 1..Len(qs) |-> JGet(qs[k], "points", JInt(100))]
        metadata == IF "metadata" \in DOMAIN e5 THEN e5["metadata"] ELSE JDict(EmptyDict)
    IN  IF ~iterates_over_dicts(questions)
        THEN [raised |-> TRUE, value |-> JNone]
        ELSE IF "totalPoints" \notin DOMAIN e5 /\ \E k \in 1..Len(qs) : ~summable(points[k])
        THEN [raised |-> TRUE, value |-> JNone]
        ELSE IF metadata.t # "dict"
        THEN \* ** of what is not a mapping is a TypeError
             [raised |-> TRUE, value |-> JNone]
        ELSE
        LET e6 == SetDefault(e5, "totalPoints", JInt(Sum([k \in 1..Len(qs) |-> number(points[k])])))
            e7 == IF "questions" \in DOMAIN e6 /\ questions.t = "list"
                  THEN SetKey(e6, "questions",
                              JList([k \in 1..Len(qs) |->
                                        enhance_question_data(qs[k], k - 1, topic, difficulty, quiz_type)]))
                  ELSE e6
            e8 == SetKey(e7, "metadata",
                         JDict(Merge(metadata.v,
                                     [generatedAt      |-> JInt(now),
                                      totalQuestions   |-> JInt(Len(qs)),
                                      aiGenerated      |-> JBool(TRUE),
                                      enhancementLevel |-> JStr((* "full" *) <<"f","u","l","l">>)])))
        IN  [raised |-> FALSE, value |-> JDict(e8)]

\* generate_with_openai(...) at time now, the LLM behaving as llm says: the
\* API call raises, or it answers a text json.loads rejects, or it answers
\* the JSON value llm.value
generate_with_openai(llm, topic, difficulty, num_questions, quiz_type, context, now) ==
    IF llm.kind \in {"api_error", "invalid_json"}
    THEN [raised |-> TRUE, value |-> JNone]
    ELSE enhance_quiz_data(llm.value, topic, difficulty, num_questions, quiz_type, now)
---------------------------------------------------------------------------
(* The question generators of POST /generate-questions.                   *)

\* generate_questions_fallback(topic, question_type, count, difficulty)
generate_questions_fallback(topic, question_type, count, difficulty) ==
    LET aspects == generate_aspects_from_topic(topic, count)
    IN  [k \in 1..count |->
            LET aspect == aspects[PyMod(k - 1, Len(aspects)) + 1]
            IN  [question      |-> (* "What is important to know about " *) <<"W","h","a","t"," ","i","s"," ","i","m","p","o","r","t","a","n","t"," ","t","o"," ","k","n","o","w"," ","a","b","o","u","t"," ">> \o aspect \o (* " in " *) <<" ","i","n"," ">> \o topic \o <<"?">>,
                 type          |-> question_type,
                 options       |-> <<(* "Key concept A about " *) <<"K","e","y"," ","c","o","n","c","e","p","t"," ","A"," ","a","b","o","u","t"," ">> \o aspect,
                                     (* "Key concept B about " *) <<"K","e","y"," ","c","o","n","c","e","p","t"," ","B"," ","a","b","o","u","t"," ">> \o aspect,
                                     (* "Key concept C about " *) <<"K","e","y"," ","c","o","n","c","e","p","t"," ","C"," ","a","b","o","u","t"," ">> \o aspect,
                                     (* "Key concept D about " *) <<"K","e","y"," ","c","o","n","c","e","p","t"," ","D"," ","a","b","o","u","t"," ">> \o aspect>>,
                 correctAnswer |-> 0,
                 explanation   |-> (* "This covers fundamental knowledge about " *) <<"T","h","i","s"," ","c","o","v","e","r","s"," ","f","u","n","d","a","m","e","n","t","a","l"," ","k","n","o","w","l","e","d","g","e"," ","a","b","o","u","t"," ">> \o aspect \o (* " in " *) <<" ","i","n"," ">> \o topic \o <<".">>,
                 points        |-> IF difficulty = s_easy THEN 100 ELSE IF difficulty = s_medium THEN 150 ELSE 200,
                 timeLimit     |-> IF difficulty = s_easy THEN 30 ELSE IF difficulty = s_medium THEN 45 ELSE 60,
                 difficulty    |-> difficulty,
                 category      |-> categorize_topic(topic)]]

\* generate_questions_with_openai(...), the LLM behaving as llm says: the API
\* call raises, or the answer holds no JSON array (ValueError), or it is the
\* JSON array llm.value, whose entries must be dicts for the item
\* assignments to go through
generate_questions_with_openai(llm, topic, question_type, count, difficulty, context) ==
    IF llm.kind \in {"api_error", "invalid_json"} \/ llm.value.t # "list"
    THEN [raised |-> TRUE, value |-> JNone]
    ELSE IF \E k \in 1..Len(llm.value.v) : llm.value.v[k].t # "dict"
    THEN [raised |-> TRUE, value |-> JNone]
    ELSE [raised |-> FALSE,
          value  |-> JList([k \in 1..Len(llm.value.v) |->
                        JDict(SetKey(SetKey(SetKey(llm.value.v[k].v,
                            "points", JInt(IF difficulty = s_easy THEN 100 ELSE IF difficulty = s_medium THEN 150 ELSE 200)),
                            "timeLimit", JInt(IF difficulty = s_easy THEN 30 ELSE IF difficulty = s_medium THEN 45 ELSE 60)),
                            "difficulty", JStr(difficulty)))])]


---------------------------------------------------------------------------
(* The handler of POST /generate-quiz.  data is the JSON body, a dict of  *)
(* the fields the client sent, each of its type: topic, difficulty,       *)
(* quizType and pdfText str, numQuestions a typed JSON value.  The        *)
(* handler gives the                                                      *)
(* status and the body of the response, the calls it made in order, and   *)
(* the generator and the clock as it leaves them.                         *)

\* int(x) of a JSON int, bool, float or null: an int is itself, a bool is 0
\* or 1, a float is truncated toward zero, and null raises TypeError
int(x) ==
    IF x.t = "int" THEN [raised |-> FALSE, value |-> x.v]
    ELSE IF x.t = "bool" THEN [raised |-> FALSE, value |-> IF x.v THEN 1 ELSE 0]
    ELSE IF x.t = "float"
    THEN [raised |-> FALSE, value |-> IF x.v >= 0 THEN x.v \div 10 ELSE -((-x.v) \div 10)]
    ELSE [raised |-> TRUE, value |-> 0]

Response(status, body, called, r, now) ==
    [status |-> status, body |-> body, calls |-> called, rng |-> r, clock |-> now]

\* the handler without the try around the LLM path
generate_quiz_no_inner_try(data, the_client, llm, r, now) ==
    IF data = EmptyDict
    THEN Response(400, [success |-> FALSE, error |-> (* "No data provided" *) <<"N","o"," ","d","a","t","a"," ","p","r","o","v","i","d","e","d">>], <<>>, r, now)
    ELSE
    LET topic == strip(Get(data, "topic", <<>>))
        difficulty == lower(Get(data, "difficulty", s_medium))
        converted == int(Get(data, "numQuestions", JInt(10)))
        num_questions == converted.value
        quiz_type == Get(data, "quizType", (* "multiple-choice" *) <<"m","u","l","t","i","p","l","e","-","c","h","o","i","c","e">>)
        pdf_text == Get(data, "pdfText", <<>>)
    IN  IF converted.raised
        THEN Response(500, [success |-> FALSE, error |-> (* "Failed to generate quiz: " *) <<"F","a","i","l","e","d"," ","t","o"," ","g","e","n","e","r","a","t","e"," ","q","u","i","z",":"," ">>], <<>>, r, now)
        ELSE IF topic = <<>> /\ pdf_text = <<>>
        THEN Response(400, [success |-> FALSE, error |-> (* "Topic or PDF content is required" *) <<"T","o","p","i","c"," ","o","r"," ","P","D","F"," ","c","o","n","t","e","n","t"," ","i","s"," ","r","e","q","u","i","r","e","d">>], <<>>, r, now)
        ELSE IF num_questions < 1 \/ num_questions > 50
        THEN Response(400, [success |-> FALSE, error |-> (* "Number of questions must be between 1 and 50" *) <<"N","u","m","b","e","r"," ","o","f"," ","q","u","e","s","t","i","o","n","s"," ","m","u","s","t"," ","b","e"," ","b","e","t","w","e","e","n"," ","1"," ","a","n","d"," ","5","0">>],
                      <<>>, r, now)
        ELSE
        LET ai == generate_with_openai(llm, topic, difficulty, num_questions, quiz_type, pdf_text, now)
            fallback == generate_enhanced_fallback_quiz(topic, difficulty, num_questions, quiz_type, pdf_text, r)
        IN  IF the_client /\ ai.raised
            THEN Response(500, [success |-> FALSE, error |-> (* "Failed to generate quiz: " *) <<"F","a","i","l","e","d"," ","t","o"," ","g","e","n","e","r","a","t","e"," ","q","u","i","z",":"," ">>],
                          <<"generate_with_openai">>, r, now)
            ELSE IF the_client
            THEN Response(200,
                          [success |-> TRUE, message |-> (* "Quiz generated with AI" *) <<"Q","u","i","z"," ","g","e","n","e","r","a","t","e","d"," ","w","i","t","h"," ","A","I">>,
                           data |-> FromJson(JDict(SetKey(ai.value.v, "metadata",
                                        JDict(Merge(ai.value.v["metadata"].v,
                                                    [ai_provider |-> JStr((* "openai" *) <<"o","p","e","n","a","i">>),
                                                     model       |-> JStr((* "gpt-3.5-turbo" *) <<"g","p","t","-","3",".","5","-","t","u","r","b","o">>)])))))],
                          <<"generate_with_openai">>, r, now + 1)
            ELSE Response(200,
                          [success |-> TRUE, message |-> (* "Quiz generated with enhanced fallback" *) <<"Q","u","i","z"," ","g","e","n","e","r","a","t","e","d"," ","w","i","t","h"," ","e","n","h","a","n","c","e","d"," ","f","a","l","l","b","a","c","k">>,
                           data |-> SetKey(fallback, "metadata",
                                       Merge(fallback["metadata"],
                                             [ai_provider |-> (* "fallback" *) <<"f","a","l","l","b","a","c","k">>,
                                              note |-> (* "AI service unavailable, using enhanced fallback" *) <<"A","I"," ","s","e","r","v","i","c","e"," ","u","n","a","v","a","i","l","a","b","l","e",","," ","u","s","i","n","g"," ","e","n","h","a","n","c","e","d"," ","f","a","l","l","b","a","c","k">>]))],
                          <<"generate_enhanced_fallback_quiz">>, rng_after(r, num_questions), now)

\* generate_quiz() on the body data, the_client being the truth value of the
\* module's client, the generator being in state r and the time now
generate_quiz(data, the_client, llm, r, now) ==
    IF data = EmptyDict
    THEN Response(400, [success |-> FALSE, error |-> (* "No data provided" *) <<"N","o"," ","d","a","t","a"," ","p","r","o","v","i","d","e","d">>], <<>>, r, now)
    ELSE
    LET topic == strip(Get(data, "topic", <<>>))
        difficulty == lower(Get(data, "difficulty", s_medium))
        converted == int(Get(data, "numQuestions", JInt(10)))
        num_questions == converted.value
        quiz_type == Get(data, "quizType", (* "multiple-choice" *) <<"m","u","l","t","i","p","l","e","-","c","h","o","i","c","e">>)
        pdf_text == Get(data, "pdfText", <<>>)
    IN  IF converted.raised
        THEN Response(500, [success |-> FALSE, error |-> (* "Failed to generate quiz: " *) <<"F","a","i","l","e","d"," ","t","o"," ","g","e","n","e","r","a","t","e"," ","q","u","i","z",":"," ">>], <<>>, r, now)
        ELSE IF topic = <<>> /\ pdf_text = <<>>
        THEN Response(400, [success |-> FALSE, error |-> (* "Topic or PDF content is required" *) <<"T","o","p","i","c"," ","o","r"," ","P","D","F"," ","c","o","n","t","e","n","t"," ","i","s"," ","r","e","q","u","i","r","e","d">>], <<>>, r, now)
        ELSE IF num_questions < 1 \/ num_questions > 50
        THEN Response(400, [success |-> FALSE, error |-> (* "Number of questions must be between 1 and 50" *) <<"N","u","m","b","e","r"," ","o","f"," ","q","u","e","s","t","i","o","n","s"," ","m","u","s","t"," ","b","e"," ","b","e","t","w","e","e","n"," ","1"," ","a","n","d"," ","5","0">>],
                      <<>>, r, now)
        ELSE
        LET ai == generate_with_openai(llm, topic, difficulty, num_questions, quiz_type, pdf_text, now)
            fallback == generate_enhanced_fallback_quiz(topic, difficulty, num_questions, quiz_type, pdf_text, r)
        IN  IF the_client /\ ~ai.raised
            THEN Response(200,
                          [success |-> TRUE, message |-> (* "Quiz generated with AI" *) <<"Q","u","i","z"," ","g","e","n","e","r","a","t","e","d"," ","w","i","t","h"," ","A","I">>,
                           data |-> FromJson(JDict(SetKey(ai.value.v, "metadata",
                                        JDict(Merge(ai.value.v["metadata"].v,
                                                    [ai_provider |-> JStr((* "openai" *) <<"o","p","e","n","a","i">>),
                                                     model       |-> JStr((* "gpt-3.5-turbo" *) <<"g","p","t","-","3",".","5","-","t","u","r","b","o">>)])))))],
                          <<"generate_with_openai">>, r, now + 1)
            ELSE Response(200,
                          [success |-> TRUE, message |-> (* "Quiz generated with enhanced fallback" *) <<"Q","u","i","z"," ","g","e","n","e","r","a","t","e","d"," ","w","i","t","h"," ","e","n","h","a","n","c","e","d"," ","f","a","l","l","b","a","c","k">>,
                           data |-> SetKey(fallback, "metadata",
                                       Merge(fallback["metadata"],
                                             [ai_provider |-> (* "fallback" *) <<"f","a","l","l","b","a","c","k">>,
                                              note |-> (* "AI service unavailable, using enhanced fallback" *) <<"A","I"," ","s","e","r","v","i","c","e"," ","u","n","a","v","a","i","l","a","b","l","e",","," ","u","s","i","n","g"," ","e","n","h","a","n","c","e","d"," ","f","a","l","l","b","a","c","k">>]))],
                          IF the_client
                          THEN <<"generate_with_openai", "generate_enhanced_fallback_quiz">>
                          ELSE <<"generate_enhanced_fallback_quiz">>,
                          rng_after(r, num_questions), now)

\* the bodies of the requests
HandlerTopics == {<<>>, (* "  " *) <<" "," ">>, (* " ai " *) <<" ","a","i"," ">>}

HandlerDifficulties == {(* "Easy" *) <<"E","a","s","y">>, s_hard, (* "expert" *) <<"e","x","p","e","r","t">>}

HandlerCounts ==
    {JInt(0), JInt(1), JInt(MaxQuestions), JInt(50), JInt(51), JFloat(505), JNone}

HandlerPdfTexts == {<<>>, (* "Quiz data, quiz!" *) <<"Q","u","i","z"," ","d","a","t","a",","," ","q","u","i","z","!">>}

RequestBodies ==
    {EmptyDict, [topic |-> (* "art" *) <<"a","r","t">>]}
    \cup {[topic |-> topic, difficulty |-> difficulty, numQuestions |-> num_questions, pdfText |-> pdf_text] :
            topic \in HandlerTopics, difficulty \in HandlerDifficulties,
            num_questions \in HandlerCounts, pdf_text \in HandlerPdfTexts}

\* a question as the LLM writes it, with the given fields left out
LLMQuestion(i, left_out) ==
    LET q == [question |-> JStr(<<"Q">> \o IntToStr(i)),
              options |-> JList(<<JStr(<<"a">>), JStr(<<"b">>), JStr(<<"c">>), JStr(<<"d">>)>>),
              correctAnswer |-> JInt(0), explanation |-> JStr((* "Because." *) <<"B","e","c","a","u","s","e",".">>), points |-> JInt(100 + i),
              timeLimit |-> JInt(30), difficulty |-> JStr(s_easy), educationalTip |-> JStr((* "Tip." *) <<"T","i","p",".">>)]
    IN  JDict([k \in DOMAIN q \ left_out |-> q[k]])

\* a quiz as the LLM writes it, with the given fields left out
LLMQuiz(questions, left_out) ==
    LET quiz == [title |-> JStr((* "AI Quiz" *) <<"A","I"," ","Q","u","i","z">>), description |-> JStr((* "About." *) <<"A","b","o","u","t",".">>), category |-> JStr((* "Science" *) <<"S","c","i","e","n","c","e">>),
                 difficulty |-> JStr(s_easy), estimatedTime |-> JInt(4), totalPoints |-> JInt(100),
                 questions |-> questions, metadata |-> JDict([educationalLevel |-> JStr((* "Beginner" *) <<"B","e","g","i","n","n","e","r">>)])]
    IN  JDict([k \in DOMAIN quiz \ left_out |-> quiz[k]])

\* the values the LLM answers: well-formed quizzes, quizzes with fields
\* missing, and values of another structure
LLMValues ==
    { LLMQuiz(JList(<<LLMQuestion(1, {}), LLMQuestion(2, {})>>), {}),
      LLMQuiz(JList(<<LLMQuestion(1, {"points", "timeLimit", "educationalTip"}), LLMQuestion(2, {})>>),
              {"totalPoints", "metadata", "title"}),
      JDict(EmptyDict),
      JList(<<>>),
      JStr((* "quiz" *) <<"q","u","i","z">>),
      JInt(5),
      JNone,
      LLMQuiz(JList(<<LLMQuestion(1, {}), JStr((* "Q2" *) <<"Q","2">>)>>), {}),
      LLMQuiz(JInt(2), {}),
      LLMQuiz(JDict(EmptyDict), {"totalPoints"}),
      LLMQuiz(JDict([q1 |-> LLMQuestion(1, {})]), {}),
      LLMQuiz(JList(<<JDict(SetKey(LLMQuestion(1, {}).v, "points", JStr((* "ten" *) <<"t","e","n">>)))>>), {}),
      LLMQuiz(JList(<<JDict(SetKey(LLMQuestion(1, {}).v, "points", JStr((* "ten" *) <<"t","e","n">>)))>>), {"totalPoints"}),
      JDict(SetKey(LLMQuiz(JList(<<LLMQuestion(1, {})>>), {}).v, "metadata", JStr((* "none" *) <<"n","o","n","e">>))),
      JDict(SetKey(LLMQuiz(JList(<<LLMQuestion(1, {})>>), {}).v, "metadata", JNone)) }

LLMBehaviours ==
    {[kind |-> "api_error", value |-> JNone], [kind |-> "invalid_json", value |-> JNone]}
    \cup {[kind |-> "json", value |-> value] : value \in LLMValues}

NoLLM == [kind |-> "none", value |-> JNone]

NoResponse == [status |-> 0, body |-> EmptyDict, calls |-> <<>>, rng |-> 0, clock |-> 0]

HandlerSeeds == {r \in 0..(RngStates - 1) : r % 8 = 3}

\* the process has started: the client is configured or is None
HandlerInit ==
    /\ client \in BOOLEAN
    /\ rng \in HandlerSeeds
    /\ clock = 0
    /\ h_data = EmptyDict
    /\ h_llm = NoLLM
    /\ h_response = NoResponse

\* a request arrives and is answered; the LLM is asked only when the
\* handler calls it
HandleGenerateQuiz ==
    /\ h_response = NoResponse
    /\ \E data \in RequestBodies, llm \in LLMBehaviours :
          \E response \in {generate_quiz(data, client, llm, rng, clock)} :
              /\ (llm.kind = "api_error") \/ ("generate_with_openai" \in {response.calls[k] : k \in 1..Len(response.calls)})
              /\ h_data' = data
              /\ h_llm' = IF response.calls # <<>> /\ response.calls[1] = "generate_with_openai" THEN llm ELSE NoLLM
              /\ h_response' = response
              /\ rng' = response.rng
              /\ clock' = response.clock
    /\ UNCHANGED client

HandlerNext ==
    HandleGenerateQuiz /\ UNCHANGED pureVars /\ UNCHANGED sessionVars /\ UNCHANGED threadVars /\ UNCHANGED heap
        /\ UNCHANGED textVars /\ UNCHANGED assignVars
---------------------------------------------------------------------------
(* The text harness: a text and its page texts are drawn, then            *)
(* analyze_pdf_content and extract_keywords_from_context are applied.      *)

\* ' '.join(words)
RECURSIVE Join(_)
Join(words) ==
    IF words = <<>> THEN <<>>
    ELSE IF Len(words) = 1 THEN words[1]
    ELSE words[1] \o <<" ">> \o Join(Tail(words))

\* the sequences of at most n elements of S
RECURSIVE SeqsUpTo(_, _)
SeqsUpTo(S, n) ==
    IF n = 0 THEN {<<>>}
    ELSE LET shorter == SeqsUpTo(S, n - 1)
         IN  shorter \cup {Append(t, w) : t \in shorter, w \in S}

TextVocabulary == {(* "Rome" *) <<"R","o","m","e">>, (* "Data." *) <<"D","a","t","a",".">>, (* "This" *) <<"T","h","i","s">>, (* "analysis" *) <<"a","n","a","l","y","s","i","s">>, (* "of" *) <<"o","f">>, (* "Code_x" *) <<"C","o","d","e","_","x">>}

\* the texts of at most MaxTextWords words of the vocabulary
WordTexts == {Join(ws) : ws \in SeqsUpTo(TextVocabulary, MaxTextWords)}

\* the texts that say one technical term up to MaxRepeat times
RepeatedTexts == {Join([k \in 1..n |-> (* "analysis" *) <<"a","n","a","l","y","s","i","s">>]) : n \in 0..MaxRepeat}

\* the texts that say the first n technical terms once each
TermTexts == {Join(SubSeq(technical_terms, 1, n)) : n \in 0..Len(technical_terms)}

\* the j-th of the capitalized words of the topic texts
TopicWord(j) == (* "Topi" *) <<"T","o","p","i">> \o <<LowerChars[j]>>

\* the text of n distinct capitalized words, the j-th said (j mod 3) + 1 times,
\* with a stop word after the first
TopicText(n) ==
    LET said(j) == [k \in 1..((j % 3) + 1) |-> TopicWord(j)]
        RECURSIVE from(_)
        from(j) == IF j > n THEN <<>> ELSE said(j) \o (IF j = 1 THEN <<(* "There" *) <<"T","h","e","r","e">>>> ELSE <<>>) \o from(j + 1)
    IN  Join(from(1))

TopicTexts == {TopicText(n) : n \in 0..MaxTopicWords}

Texts == WordTexts \cup RepeatedTexts \cup TermTexts \cup TopicTexts

NoAnalysis == [statistics |-> EmptyDict]

\* the harness before it is used
TextIdle ==
    /\ d_text = <<>>
    /\ d_page_texts = <<>>
    /\ d_done = {}
    /\ d_analysis = NoAnalysis
    /\ d_keywords = <<>>

TextInit ==
    /\ d_text \in Texts
    /\ d_page_texts \in {<<>>, <<d_text>>}
    /\ d_done = {}
    /\ d_analysis = NoAnalysis
    /\ d_keywords = <<>>

CallAnalyzePdfContent ==
    /\ "analyze_pdf_content" \notin d_done
    /\ d_analysis' = analyze_pdf_content(d_text, d_page_texts)
    /\ d_done' = d_done \cup {"analyze_pdf_content"}
    /\ UNCHANGED <<d_text, d_page_texts, d_keywords>>

CallExtractKeywords ==
    /\ "extract_keywords_from_context" \notin d_done
    /\ d_keywords' = extract_keywords_from_context(d_text)
    /\ d_done' = d_done \cup {"extract_keywords_from_context"}
    /\ UNCHANGED <<d_text, d_page_texts, d_analysis>>

TextNext ==
    \/ (CallAnalyzePdfContent /\ UNCHANGED pureVars /\ UNCHANGED coreVars /\ UNCHANGED concVars /\ UNCHANGED handlerVars /\ UNCHANGED assignVars)
    \/ (CallExtractKeywords /\ UNCHANGED pureVars /\ UNCHANGED coreVars /\ UNCHANGED concVars /\ UNCHANGED handlerVars /\ UNCHANGED assignVars)
---------------------------------------------------------------------------
(* A client whose quiz lacks any of the optional fields.                   *)

QuizFields == {"title", "description", "learningObjectives", "questions", "metadata", "category"}

QuestionFields == {"explanation", "educationalTip", "tags", "difficulty"}

\* a well-formed question with the given optional fields
FieldQuestion(present, i) ==
    LET all == [question |-> <<"Q">> \o IntToStr(i), options |-> <<<<"a">>, <<"b">>, <<"c">>, <<"d">>>>,
                correctAnswer |-> i % 4,
                explanation |-> (IF i = 0 THEN (* "Because." *) <<"B","e","c","a","u","s","e",".">> ELSE (* "a b c d e f g h i" *) <<"a"," ","b"," ","c"," ","d"," ","e"," ","f"," ","g"," ","h"," ","i">>), educationalTip |-> (* "Tip." *) <<"T","i","p",".">>,
                tags |-> <<<<"t">>>>, difficulty |-> s_hard]
    IN  [k \in {"question", "options", "correctAnswer"} \cup present |-> all[k]]

\* a well-formed quiz with the given optional fields; its first question has
\* the given optional fields and its second the others
FieldQuiz(present, question_present) ==
    LET all == [title |-> (* "Math Quiz" *) <<"M","a","t","h"," ","Q","u","i","z">>, description |-> (* "Sums." *) <<"S","u","m","s",".">>, learningObjectives |-> <<(* "Add" *) <<"A","d","d">>>>,
                questions |-> <<FieldQuestion(question_present, 0),
                                FieldQuestion(QuestionFields \ question_present, 1)>>,
                metadata |-> [source |-> (* "upload" *) <<"u","p","l","o","a","d">>], category |-> (* "Mathematics" *) <<"M","a","t","h","e","m","a","t","i","c","s">>]
    IN  [k \in present |-> all[k]]

FieldQuizzes ==
    {FieldQuiz(present, question_present) : present \in SUBSET QuizFields, question_present \in SUBSET QuestionFields}

\* a quiz arrives in a request body
ReceiveFieldQuiz ==
    /\ cur = 0
    /\ \E quiz \in FieldQuizzes :
          /\ heap' = StoreQuiz(heap, quiz)
          /\ cur' = Len(heap')
    /\ origin' = "client"
    /\ UNCHANGED <<rng, clock, gen, calls, last>>

FieldsNext ==
    \/ (ReceiveFieldQuiz /\ UNCHANGED pureVars /\ UNCHANGED concVars /\ UNCHANGED handlerVars /\ UNCHANGED textVars /\ UNCHANGED assignVars)
    \/ (CallEnhanceQuizContent /\ UNCHANGED pureVars /\ UNCHANGED concVars /\ UNCHANGED handlerVars /\ UNCHANGED textVars /\ UNCHANGED assignVars)
---------------------------------------------------------------------------
(* A client that also asks for enhancement types the service does not     *)
(* know: /enhance-quiz passes whatever enhancementType the body carries.   *)

UnknownModes == {(* "summary" *) <<"s","u","m","m","a","r","y">>, (* "Comprehensive" *) <<"C","o","m","p","r","e","h","e","n","s","i","v","e">>}

\* a call of enhance_quiz_content with an enhancement type that is none of
\* the three, on the quiz the client holds
CallEnhanceUnknownMode ==
    /\ cur # 0
    /\ Len(calls) < MaxEnhance
    /\ \E mode \in UnknownModes :
          \E r \in {enhance_quiz_content(heap, cur, mode, clock)} :
              /\ heap' = r.heap
              /\ cur' = r.ret
              /\ calls' = Append(calls, mode)
              /\ last' = [mode |-> mode, arg |-> cur, before |-> Deep(heap, cur), ret |-> r.ret]
    /\ clock' = clock + 1
    /\ UNCHANGED <<rng, origin, gen>>

ModesNext ==
    \/ (ReceiveQuiz /\ UNCHANGED pureVars /\ UNCHANGED concVars /\ UNCHANGED handlerVars /\ UNCHANGED textVars /\ UNCHANGED assignVars)
    \/ (CallEnhanceQuizContent /\ UNCHANGED pureVars /\ UNCHANGED concVars /\ UNCHANGED handlerVars /\ UNCHANGED textVars /\ UNCHANGED assignVars)
    \/ (CallEnhanceUnknownMode /\ UNCHANGED pureVars /\ UNCHANGED concVars /\ UNCHANGED handlerVars /\ UNCHANGED textVars /\ UNCHANGED assignVars)




---------------------------------------------------------------------------
(* The places that give a question its points and time limit from the     *)
(* difficulty: each is called with the same difficulty and count, and the  *)
(* (points, timeLimit) pairs of the questions it returns are kept.         *)

AssignSites ==
    {"generate_enhanced_fallback_quiz", "generate_questions_fallback",
     "enhance_quiz_data", "generate_questions_with_openai"}

AssignDifficulties == {s_easy, s_medium, s_hard, (* "expert" *) <<"e","x","p","e","r","t">>, (* "Easy" *) <<"E","a","s","y">>, <<>>}

AssignTopic == (* "ai" *) <<"a","i">>

\* the questions the LLM answers: none has points or a time limit of its own
LLMQuestions(count) ==
    JList([k \in 1..count |-> JDict([question |-> JStr(<<"Q">> \o IntToStr(k))])])

\* the (points, timeLimit) pairs of a sequence of questions
Pairs(questions) == {<<questions[k].points, questions[k].timeLimit>> : k \in 1..Len(questions)}

AssignIdle ==
    /\ a_difficulty = <<>>
    /\ a_count = 0
    /\ a_assigned = [site \in AssignSites |-> {}]

AssignInit ==
    /\ a_difficulty \in AssignDifficulties
    /\ a_count \in 1..MaxQuestions
    /\ a_assigned = [site \in AssignSites |-> {}]

\* site returns, having given its questions the pairs
Returns(site, pairs) ==
    /\ a_assigned[site] = {}
    /\ a_assigned' = [a_assigned EXCEPT ![site] = pairs]
    /\ UNCHANGED <<a_difficulty, a_count>>

AssignByFallbackQuiz ==
    \E r \in HandlerSeeds :
        Returns("generate_enhanced_fallback_quiz",
                Pairs(generate_enhanced_fallback_quiz(AssignTopic, a_difficulty, a_count,
                                                      (* "multiple-choice" *) <<"m","u","l","t","i","p","l","e","-","c","h","o","i","c","e">>, <<>>, r).questions))

AssignByQuestionsFallback ==
    Returns("generate_questions_fallback",
            Pairs(generate_questions_fallback(AssignTopic, (* "multiple-choice" *) <<"m","u","l","t","i","p","l","e","-","c","h","o","i","c","e">>, a_count, a_difficulty)))

AssignByEnhanceQuizData ==
    \E now \in 0..1 :
        Returns("enhance_quiz_data",
                Pairs(FromJson(enhance_quiz_data(JDict([questions |-> LLMQuestions(a_count)]), AssignTopic,
                                                 a_difficulty, a_count, (* "multiple-choice" *) <<"m","u","l","t","i","p","l","e","-","c","h","o","i","c","e">>, now).value).questions))

AssignByQuestionsWithOpenAI ==
    Returns("generate_questions_with_openai",
            Pairs(FromJson(generate_questions_with_openai([kind |-> "json", value |-> LLMQuestions(a_count)],
                               AssignTopic, (* "multiple-choice" *) <<"m","u","l","t","i","p","l","e","-","c","h","o","i","c","e">>, a_count, a_difficulty, <<>>).value)))

AssignNext ==
    \/ (AssignByFallbackQuiz /\ UNCHANGED pureVars /\ UNCHANGED coreVars /\ UNCHANGED concVars /\ UNCHANGED handlerVars /\ UNCHANGED textVars)
    \/ (AssignByQuestionsFallback /\ UNCHANGED pureVars /\ UNCHANGED coreVars /\ UNCHANGED concVars /\ UNCHANGED handlerVars /\ UNCHANGED textVars)
    \/ (AssignByEnhanceQuizData /\ UNCHANGED pureVars /\ UNCHANGED coreVars /\ UNCHANGED concVars /\ UNCHANGED handlerVars /\ UNCHANGED textVars)
    \/ (AssignByQuestionsWithOpenAI /\ UNCHANGED pureVars /\ UNCHANGED coreVars /\ UNCHANGED concVars /\ UNCHANGED handlerVars /\ UNCHANGED textVars)

\* the handler before there is a request
HandlerIdle ==
    /\ h_data = EmptyDict
    /\ h_llm = NoLLM
    /\ h_response = NoResponse

\* the threads before there are any
ThreadsIdle ==
    /\ seed = 0
    /\ t_pc = [t \in Threads |-> "idle"]
    /\ t_args = [t \in Threads |-> NoGen]
    /\ t_questions = [t \in Threads |-> <<>>]
    /\ t_frame = [t \in Threads |-> NoFrame]
    /\ t_result = [t \in Threads |-> EmptyDict]

\* the process-wide state of the threads before there are any
ConcIdle == client = FALSE /\ ThreadsIdle

InitHandler == HandlerInit /\ heap = <<>> /\ SessionIdle /\ ThreadsIdle /\ PureIdle /\ TextIdle /\ AssignIdle

SpecHandler == InitHandler /\ [][HandlerNext]_vars

InitConc == ConcInit /\ SessionIdle /\ HandlerIdle /\ PureIdle /\ TextIdle /\ AssignIdle

SpecConc == InitConc /\ [][ConcNext]_vars

Init == CoreInit /\ PureIdle /\ ConcIdle /\ HandlerIdle /\ TextIdle /\ AssignIdle

Spec == Init /\ [][CoreNext]_vars

InitPure == PureInit /\ CoreIdle /\ ConcIdle /\ HandlerIdle /\ TextIdle /\ AssignIdle

SpecPure == InitPure /\ [][PureNext]_vars

---------------------------------------------------------------------------
(* Properties.                                                             *)

InitText == TextInit /\ PureIdle /\ CoreIdle /\ ConcIdle /\ HandlerIdle /\ AssignIdle

SpecText == InitText /\ [][TextNext]_vars

InitFields == CoreIdle /\ PureIdle /\ ConcIdle /\ HandlerIdle /\ TextIdle /\ AssignIdle

SpecFields == InitFields /\ [][FieldsNext]_vars

\* the places that assign points and time limit, called on one difficulty
InitAssign == AssignInit /\ PureIdle /\ CoreIdle /\ ConcIdle /\ HandlerIdle /\ TextIdle

SpecAssign == InitAssign /\ [][AssignNext]_vars

\* a client whose enhancement types include unknown ones
InitModes == CoreIdle /\ PureIdle /\ ConcIdle /\ HandlerIdle /\ TextIdle /\ AssignIdle

SpecModes == InitModes /\ [][ModesNext]_vars

CategoryNames == <<(* "Technology" *) <<"T","e","c","h","n","o","l","o","g","y">>, (* "Science" *) <<"S","c","i","e","n","c","e">>, (* "History" *) <<"H","i","s","t","o","r","y">>, (* "Mathematics" *) <<"M","a","t","h","e","m","a","t","i","c","s">>, (* "Business" *) <<"B","u","s","i","n","e","s","s">>>>

\* some keyword of the k-th category is a substring of the lower-cased topic
KeywordMatch(topic, k) ==
    \E j \in 1..Len(categories[k].keywords) : Contains(lower(topic), categories[k].keywords[j])

\* C8: categorize_topic is total and first-match: it returns one of the six
\* categories; it returns the first of Technology, Science, History,
\* Mathematics, Business one of whose keywords is a substring of the
\* lower-cased topic, and General exactly when no keyword of any category is;
\* "Python programming" gives Technology and "" gives General.
C8_CategorizeFirstMatch ==
    "categorize_topic" \in p_done =>
        /\ p_category \in {CategoryNames[k] : k \in 1..5} \cup {(* "General" *) <<"G","e","n","e","r","a","l">>}
        /\ \A k \in 1..5 :
              (p_category = CategoryNames[k]) <=>
                  (KeywordMatch(p_topic, k) /\ \A j \in 1..(k - 1) : ~KeywordMatch(p_topic, j))
        /\ (p_category = (* "General" *) <<"G","e","n","e","r","a","l">>) <=> (\A k \in 1..5 : ~KeywordMatch(p_topic, k))
        /\ (p_topic = (* "Python programming" *) <<"P","y","t","h","o","n"," ","p","r","o","g","r","a","m","m","i","n","g">> => p_category = (* "Technology" *) <<"T","e","c","h","n","o","l","o","g","y">>)
        /\ (p_topic = <<>> => p_category = (* "General" *) <<"G","e","n","e","r","a","l">>)

\* a topic holding a Mathematics keyword before a History keyword was classified History
C8_Witness ==
    /\ "categorize_topic" \in p_done
    /\ p_topic = (* "math war" *) <<"m","a","t","h"," ","w","a","r">>
    /\ p_category = (* "History" *) <<"H","i","s","t","o","r","y">>

\* the aspect list the category of a topic selects
FragmentsOf(topic) ==
    LET c == categorize_topic(topic)
    IN  IF c = (* "Technology" *) <<"T","e","c","h","n","o","l","o","g","y">> THEN aspect_templates[1]
        ELSE IF c = (* "Science" *) <<"S","c","i","e","n","c","e">> THEN aspect_templates[2]
        ELSE IF c = (* "History" *) <<"H","i","s","t","o","r","y">> THEN aspect_templates[3]
        ELSE aspect_templates[4]

\* C9: generate_aspects_from_topic(t, n), n >= 0, returns exactly n aspects,
\* element i being "{fragment[i mod L]} of {t}" for the aspect list of t's
\* category (the General list for Mathematics and Business), so that element
\* i equals element i mod L.
C9_AspectsCyclic ==
    "generate_aspects_from_topic" \in p_done =>
        LET fragment == FragmentsOf(p_topic)
            L == Len(fragment)
        IN  /\ Len(p_aspects) = p_n
            /\ \A i \in 0..(p_n - 1) :
                  /\ p_aspects[i + 1] = fragment[(i % L) + 1] \o (* " of " *) <<" ","o","f"," ">> \o p_topic
                  /\ p_aspects[i + 1] = p_aspects[(i % L) + 1]

\* more aspects than the General list holds were generated for a Mathematics topic
C9_Witness ==
    /\ "generate_aspects_from_topic" \in p_done
    /\ p_topic = (* "Marketing math" *) <<"M","a","r","k","e","t","i","n","g"," ","m","a","t","h">>
    /\ p_n > 9
    /\ Len(p_aspects) = p_n
    /\ p_aspects[10] = p_aspects[1]

\* the quiz the client holds, as a value
CurQuiz == Deep(heap, cur)

\* the aspect generate_enhanced_fallback_quiz used for its question i (0-based)
GenAspect(i) == generate_aspects_from_topic(gen.topic, gen.num_questions)[i + 1]

\* C1: whatever the topic, the aspect, the difficulty (easy, medium, hard or
\* another string) and the permutation the shuffle produced, the options of a
\* question of the fallback generator are 4 and the one at index 0 is
\* "The {aspect}"; every such question has correctAnswer 0.
C1_CorrectOptionFirst ==
    origin = "fallback" =>
        \A k \in 1..Len(CurQuiz.questions) :
            /\ Len(CurQuiz.questions[k].options) = 4
            /\ CurQuiz.questions[k].options[1] = (* "The " *) <<"T","h","e"," ">> \o GenAspect(k - 1)
            /\ CurQuiz.questions[k].correctAnswer = 0

\* a generated question of an unrecognised difficulty whose distractors are
\* not in their template order: the shuffle permuted the list
C1_Witness ==
    /\ origin = "fallback"
    /\ gen.difficulty = (* "expert" *) <<"e","x","p","e","r","t">>
    /\ \E k \in 1..Len(CurQuiz.questions) :
          /\ CurQuiz.questions[k].options[1] = (* "The " *) <<"T","h","e"," ">> \o GenAspect(k - 1)
          /\ CurQuiz.questions[k].options[2] = (* "A controversial viewpoint on " *) <<"A"," ","c","o","n","t","r","o","v","e","r","s","i","a","l"," ","v","i","e","w","p","o","i","n","t"," ","o","n"," ">> \o gen.topic
          /\ CurQuiz.questions[k].options[4] = (* "A nuanced but incorrect interpretation of " *) <<"A"," ","n","u","a","n","c","e","d"," ","b","u","t"," ","i","n","c","o","r","r","e","c","t"," ","i","n","t","e","r","p","r","e","t","a","t","i","o","n"," ","o","f"," ">> \o GenAspect(k - 1)

\* C2: with empty context and a difficulty among easy, medium, hard, the quiz
\* generate_enhanced_fallback_quiz returns for n questions has exactly n
\* questions and totalPoints n times 100, 150 or 200.
C2_CountAndTotalPoints ==
    (origin = "fallback" /\ calls = <<>> /\ gen.context = <<>>
        /\ gen.difficulty \in {s_easy, s_medium, s_hard}) =>
        /\ Len(CurQuiz.questions) = gen.num_questions
        /\ CurQuiz.totalPoints = gen.num_questions *
              (IF gen.difficulty = s_easy THEN 100 ELSE IF gen.difficulty = s_medium THEN 150 ELSE 200)

\* the fallback generator returned a two-question medium quiz worth 300 points
C2_Witness ==
    /\ origin = "fallback"
    /\ calls = <<>>
    /\ gen.context = <<>>
    /\ gen.difficulty = s_medium
    /\ gen.num_questions = 2
    /\ Len(CurQuiz.questions) = 2
    /\ CurQuiz.totalPoints = 300

\* C3: for a quiz of the fallback generator, and for the quiz returned by
\* enhance_quiz_content after any sequence of enhancements of it, totalPoints
\* is the sum of the points of the questions.
C3_TotalPointsIsSum ==
    origin = "fallback" =>
        CurQuiz.totalPoints = Sum([k \in 1..Len(CurQuiz.questions) |-> CurQuiz.questions[k].points])

\* C5: enhance_quiz_content leaves the quiz it is given as it was: after the
\* call the argument has the value it had before the call.
C5_ArgumentUnchanged ==
    last.arg # 0 => Deep(heap, last.arg) = last.before

\* C10: after enhance_quiz_content in 'difficulty' mode the question at
\* position i has (difficulty, points, timeLimit) = (easy, 100, 30) when
\* i mod 3 = 0, (medium, 150, 45) when i mod 3 = 1 and (hard, 200, 60) when
\* i mod 3 = 2, whatever it had before; a 5-question quiz ends with the
\* difficulties easy, medium, hard, easy, medium.
C10_DifficultyByPosition ==
    (last.mode = s_difficulty) =>
        LET questions == Get(Deep(heap, last.ret), "questions", <<>>)
        IN  /\ \A i \in 0..(Len(questions) - 1) :
                  <<questions[i + 1].difficulty, questions[i + 1].points, questions[i + 1].timeLimit>>
                      = (IF i % 3 = 0 THEN <<s_easy, 100, 30>>
                         ELSE IF i % 3 = 1 THEN <<s_medium, 150, 45>>
                         ELSE <<s_hard, 200, 60>>)
            /\ Len(questions) = 5 =>
                  [k \in 1..5 |-> questions[k].difficulty] = <<s_easy, s_medium, s_hard, s_easy, s_medium>>

\* a 5-question quiz whose first question was hard, 999 points, 5 seconds
\* has been through 'difficulty' mode
C10_Witness ==
    /\ last.mode = s_difficulty
    /\ Len(Get(last.before, "questions", <<>>)) = 5
    /\ "difficulty" \in DOMAIN last.before.questions[1]
    /\ last.before.questions[1].difficulty = s_hard
    /\ last.before.questions[1].points = 999
    /\ Deep(heap, last.ret).questions[1].points = 100
    /\ Deep(heap, last.ret).questions[5].difficulty = s_medium

\* the request as the handler reads it
ReqTopic == strip(Get(h_data, "topic", <<>>))

ReqDifficulty == lower(Get(h_data, "difficulty", s_medium))

ReqCount == int(Get(h_data, "numQuestions", JInt(10))).value

ReqQuizType == Get(h_data, "quizType", (* "multiple-choice" *) <<"m","u","l","t","i","p","l","e","-","c","h","o","i","c","e">>)

ReqPdfText == Get(h_data, "pdfText", <<>>)

\* a request was answered and it was a valid one
ValidRequestAnswered ==
    /\ h_response # NoResponse
    /\ h_data # EmptyDict
    /\ ReqTopic # <<>> \/ ReqPdfText # <<>>
    /\ ReqCount \in 1..50

\* the handler called f
Called(f) == \E k \in 1..Len(h_response.calls) : h_response.calls[k] = f

\* the LLM was asked and the LLM path raised: the API call failed, or the
\* answer was not JSON, or its structure made the post-processing raise
LLMPathRaised ==
    /\ h_llm # NoLLM
    /\ generate_with_openai(h_llm, ReqTopic, ReqDifficulty, ReqCount, ReqQuizType, ReqPdfText, 0).raised

\* the provider the response is tagged with, if it carries a quiz
TaggedAs(provider) ==
    /\ "data" \in DOMAIN h_response.body
    /\ h_response.body.data.metadata.ai_provider = provider

\* C4: for every valid /generate-quiz request (topic non-empty once
\* stripped, or pdfText non-empty; numQuestions in 1..50): when a client is
\* configured the first call is the LLM path; if the client is absent or the
\* LLM path raises (API error, unparsable JSON, malformed structure) the
\* response is a 200 success carrying the fallback quiz of the request,
\* tagged 'fallback'; the fallback generator is called only in those cases,
\* and a response is tagged 'openai' only when the LLM path returned.
C4_FallbackOnLLMFailure ==
    ValidRequestAnswered =>
        /\ client => (h_response.calls # <<>> /\ h_response.calls[1] = "generate_with_openai")
        /\ (~client \/ LLMPathRaised) =>
              /\ h_response.status = 200
              /\ h_response.body.success
              /\ TaggedAs((* "fallback" *) <<"f","a","l","l","b","a","c","k">>)
              /\ h_response.body.data.metadata.generationMethod = (* "enhanced_fallback" *) <<"e","n","h","a","n","c","e","d","_","f","a","l","l","b","a","c","k">>
              /\ h_response.body.data.title = (* "Comprehensive Quiz: " *) <<"C","o","m","p","r","e","h","e","n","s","i","v","e"," ","Q","u","i","z",":"," ">> \o ReqTopic
              /\ h_response.body.data.difficulty = ReqDifficulty
              /\ Len(h_response.body.data.questions) = ReqCount
        /\ Called("generate_enhanced_fallback_quiz") => (~client \/ LLMPathRaised)
        /\ TaggedAs((* "openai" *) <<"o","p","e","n","a","i">>) => (client /\ h_llm # NoLLM /\ ~LLMPathRaised)

\* with a client configured the LLM answered a JSON object whose metadata is
\* a string, and the response carries the fallback quiz
C4_Witness ==
    /\ ValidRequestAnswered
    /\ client
    /\ h_llm.kind = "json"
    /\ h_llm.value.t = "dict"
    /\ "metadata" \in DOMAIN h_llm.value.v
    /\ h_llm.value.v["metadata"].t = "str"
    /\ h_response.calls = <<"generate_with_openai", "generate_enhanced_fallback_quiz">>
    /\ TaggedAs((* "fallback" *) <<"f","a","l","l","b","a","c","k">>)

\* two quizzes that are equal but for the order of the options after the
\* first of each question
SameUpToDistractorOrder(a, b) ==
    /\ DOMAIN a = DOMAIN b
    /\ \A k \in DOMAIN a \ {"questions"} : a[k] = b[k]
    /\ "questions" \in DOMAIN a =>
          /\ Len(a.questions) = Len(b.questions)
          /\ \A j \in 1..Len(a.questions) :
                LET qa == a.questions[j]
                    qb == b.questions[j]
                IN  /\ DOMAIN qa = DOMAIN qb
                    /\ \A k \in DOMAIN qa \ {"options"} : qa[k] = qb[k]
                    /\ Len(qa.options) = Len(qb.options)
                    /\ qa.options[1] = qb.options[1]
                    /\ {qa.options[m] : m \in 2..Len(qa.options)} = {qb.options[m] : m \in 2..Len(qb.options)}

\* thread t ran generate_enhanced_fallback_quiz to its end
Generated(t) == t_pc[t] = "done" /\ t_args[t] # NoGen

\* thread t ran enhance_quiz_content to its end
Enhanced(t) == t_pc[t] = "done" /\ t_frame[t] # NoFrame

\* C6, as stated: two invocations of generate_enhanced_fallback_quiz with
\* the same (topic, difficulty, questionCount, quizType, context) return the
\* same quiz, the order of the four options of every question included.
C6_Repeatable ==
    (Generated(1) /\ Generated(2) /\ t_args[1] = t_args[2]) => t_result[1] = t_result[2]

\* C6: two invocations of generate_enhanced_fallback_quiz with the same
\* (topic, difficulty, questionCount, quizType, context) return quizzes that
\* are equal in every field except the order of the three distractors
\* (options 1..3) of each question: option 0 and the set of options are the same.
C6_RepeatableUpToDistractorOrder ==
    (Generated(1) /\ Generated(2) /\ t_args[1] = t_args[2]) =>
        SameUpToDistractorOrder(t_result[1], t_result[2])

\* two invocations with the same arguments returned quizzes whose first
\* questions list the same distractors in different orders
C6_Witness ==
    /\ Generated(1) /\ Generated(2)
    /\ t_args[1] = t_args[2]
    /\ t_result[1].questions[1].options # t_result[2].questions[1].options
    /\ t_result[1].questions[1].options[1] = t_result[2].questions[1].options[1]

\* what the request of thread t returns when it is the only request the
\* process handles: the generator is in the state the process started with
RunAlone(t) ==
    IF t_args[t] # NoGen
    THEN LET a == t_args[t]
         IN  generate_enhanced_fallback_quiz(a.topic, a.difficulty, a.num_questions, a.quiz_type, a.context, seed)
    ELSE LET h == StoreQuiz(<<>>, t_frame[t].input)
             r == enhance_quiz_content(h, Len(h), t_frame[t].mode, t_frame[t].now)
         IN  Deep(r.heap, r.ret)

\* C7, as stated: in every interleaving of two concurrently handled
\* requests, the result of each request is the result it produces when run
\* alone.
C7_ResultAsAlone ==
    \A t \in Threads : t_pc[t] = "done" => t_result[t] = RunAlone(t)

\* C7: in every interleaving of two concurrently handled requests, the
\* result of each request equals the result it produces when run alone in
\* every field except the order of the three distractors (options 1..3) of
\* each question of a fallback quiz, which the process-wide generator of
\* np.random decides and every generate_plausible_options call advances; the
\* LLM client handle is never written after initialization.
C7_ResultAsAloneUpToDistractorOrder ==
    /\ [](\A t \in Threads : t_pc[t] = "done" => SameUpToDistractorOrder(t_result[t], RunAlone(t)))
    /\ [][client' = client]_vars

\* of two generations, one returned what it returns alone and the other,
\* which found the generator advanced, returned its distractors in another
\* order than it does alone
C7_Witness ==
    /\ Generated(1) /\ Generated(2)
    /\ t_result[1] # RunAlone(1)
    /\ SameUpToDistractorOrder(t_result[1], RunAlone(1))
    /\ t_result[2] = RunAlone(2)

\* the quiz the last call of enhance_quiz_content returned, as a value
LastResult == Deep(heap, last.ret)

\* the questions of a quiz given as a value
QuestionsOf(quiz) == Get(quiz, "questions", <<>>)

\* the last two calls of enhance_quiz_content were both in the given mode;
\* last.before is then the quiz the first of them returned
TwiceInMode(mode) ==
    /\ Len(calls) >= 2
    /\ calls[Len(calls)] = mode
    /\ calls[Len(calls) - 1] = mode

\* C11: 'explanations' mode is idempotent on explanations: the explanation of
\* every question of enhance(enhance(q, explanations), explanations) is the
\* explanation of the same question of enhance(q, explanations), and one call
\* leaves a question's non-empty explanation as it was.
C11_ExplanationsIdempotent ==
    /\ last.mode = s_explanations =>
          \A k \in 1..Len(QuestionsOf(last.before)) :
              ("explanation" \in DOMAIN last.before.questions[k]
                  /\ last.before.questions[k].explanation # <<>>) =>
                  LastResult.questions[k].explanation = last.before.questions[k].explanation
    /\ TwiceInMode(s_explanations) =>
          /\ Len(QuestionsOf(LastResult)) = Len(QuestionsOf(last.before))
          /\ \A k \in 1..Len(QuestionsOf(LastResult)) :
                /\ "explanation" \in DOMAIN last.before.questions[k]
                /\ LastResult.questions[k].explanation = last.before.questions[k].explanation

\* a client's quiz whose first question had an empty explanation and whose
\* second had one of its own has been through 'explanations' mode twice: the
\* first holds the generated explanation, the second its own
C11_Witness ==
    /\ origin = "client"
    /\ calls = <<s_explanations, s_explanations>>
    /\ Len(QuestionsOf(LastResult)) >= 2
    /\ LastResult.questions[1].explanation
          = create_detailed_explanation((* "A quiz on Quizzes" *) <<"A"," ","q","u","i","z"," ","o","n"," ","Q","u","i","z","z","e","s">>, (* "key concept" *) <<"k","e","y"," ","c","o","n","c","e","p","t">>, s_hard)
    /\ LastResult.questions[2].explanation = (* "a b c d e f g h i j" *) <<"a"," ","b"," ","c"," ","d"," ","e"," ","f"," ","g"," ","h"," ","i"," ","j">>

\* analyze_pdf_content has returned
Analyzed == "analyze_pdf_content" \in d_done

\* C12: analyze_pdf_content("", []) does not raise and returns all five
\* statistics equal to zero (pages, words, sentences, average word length,
\* average sentence length), complexity 'low' and technical level
\* 'Non-Technical'.
C12_EmptyTextAllZero ==
    (Analyzed /\ d_text = <<>> /\ d_page_texts = <<>>) =>
        /\ d_analysis.statistics = [totalPages |-> 0, totalWords |-> 0, totalSentences |-> 0,
                                    averageWordLength |-> 0, averageSentenceLength |-> 0]
        /\ d_analysis.contentAnalysis.complexity = (* "low" *) <<"l","o","w">>
        /\ d_analysis.contentAnalysis.technicalLevel = (* "Non-Technical" *) <<"N","o","n","-","T","e","c","h","n","i","c","a","l">>

\* C13: enhance_quiz_content never raises on a well-formed quiz in any of the
\* three modes, whichever of the optional fields (title, description,
\* learningObjectives, questions, metadata, category, and per question
\* explanation, educationalTip, tags, difficulty) are absent: every call
\* returns a quiz, which has the fields and the questions of its argument
\* and the metadata of the call.
C13_EnhanceReturnsQuiz ==
    last.mode # <<>> =>
        /\ last.ret # 0
        /\ DOMAIN last.before \subseteq DOMAIN LastResult
        /\ "metadata" \in DOMAIN LastResult
        /\ LastResult.metadata.enhancementType = last.mode
        /\ LastResult.metadata.enhancementProvider = (* "quizito_ai" *) <<"q","u","i","z","i","t","o","_","a","i">>
        /\ Len(QuestionsOf(LastResult)) = Len(QuestionsOf(last.before))
        /\ \A k \in 1..Len(QuestionsOf(last.before)) :
              DOMAIN last.before.questions[k] \subseteq DOMAIN LastResult.questions[k]

\* a quiz that has its questions and no other optional field, the first
\* question with no optional field either, came back from 'explanations'
\* mode with its metadata and an explanation
C13_Witness ==
    /\ last.mode = s_explanations
    /\ DOMAIN last.before = {"questions"}
    /\ DOMAIN last.before.questions[1] = {"question", "options", "correctAnswer"}
    /\ last.ret # 0
    /\ "enhancedAt" \in DOMAIN LastResult.metadata
    /\ "explanation" \in DOMAIN LastResult.questions[1]

\* C14: every question of a quiz built by generate_enhanced_fallback_quiz for
\* a difficulty d among easy, medium, hard has difficulty d and
\* (points, timeLimit) = (100, 30) for easy, (150, 45) for medium and
\* (200, 60) for hard, and the title of the quiz contains the topic.
C14_QuestionFieldsByDifficulty ==
    (origin = "fallback" /\ calls = <<>> /\ gen.difficulty \in {s_easy, s_medium, s_hard}) =>
        /\ Contains(CurQuiz.title, gen.topic)
        /\ \A k \in 1..Len(CurQuiz.questions) :
              /\ CurQuiz.questions[k].difficulty = gen.difficulty
              /\ <<CurQuiz.questions[k].points, CurQuiz.questions[k].timeLimit>>
                    = (IF gen.difficulty = s_easy THEN <<100, 30>>
                       ELSE IF gen.difficulty = s_medium THEN <<150, 45>>
                       ELSE <<200, 60>>)

\* the fallback generator returned a hard quiz on 'art' whose second question
\* is worth 200 points in 60 seconds
C14_Witness ==
    /\ origin = "fallback"
    /\ calls = <<>>
    /\ gen.difficulty = s_hard
    /\ gen.topic = (* "art" *) <<"a","r","t">>
    /\ CurQuiz.title = (* "Comprehensive Quiz: art" *) <<"C","o","m","p","r","e","h","e","n","s","i","v","e"," ","Q","u","i","z",":"," ","a","r","t">>
    /\ Len(CurQuiz.questions) = 2
    /\ CurQuiz.questions[2].difficulty = s_hard
    /\ CurQuiz.questions[2].points = 200
    /\ CurQuiz.questions[2].timeLimit = 60

\* the number of places of the text where s occurs
Occurrences(text, s) ==
    Cardinality({k \in 0..(Len(text) - Len(s)) : SubSeq(text, k + 1, k + Len(s)) = s})

\* the number of occurrences of the technical terms in the lower-cased text
TermOccurrences(text) ==
    Sum([k \in 1..Len(technical_terms) |-> Occurrences(lower(text), technical_terms[k])])

\* C15: the technical level of a text is decided by the number of occurrences
\* of the 10 technical terms in the lower-cased text: more than 10 gives
\* 'Advanced Technical', more than 5 'Intermediate Technical', more than 0
\* 'Basic Technical' and none 'Non-Technical'.
C15_LevelByOccurrences ==
    Analyzed =>
        d_analysis.contentAnalysis.technicalLevel
            = (IF TermOccurrences(d_text) > 10 THEN (* "Advanced Technical" *) <<"A","d","v","a","n","c","e","d"," ","T","e","c","h","n","i","c","a","l">>
               ELSE IF TermOccurrences(d_text) > 5 THEN (* "Intermediate Technical" *) <<"I","n","t","e","r","m","e","d","i","a","t","e"," ","T","e","c","h","n","i","c","a","l">>
               ELSE IF TermOccurrences(d_text) > 0 THEN (* "Basic Technical" *) <<"B","a","s","i","c"," ","T","e","c","h","n","i","c","a","l">>
               ELSE (* "Non-Technical" *) <<"N","o","n","-","T","e","c","h","n","i","c","a","l">>)

\* positions i..j of the text hold a capitalized word of four or more
\* letters: an upper-case letter, then lower-case letters, with no word
\* character before or after
CapitalizedAt(text, i, j) ==
    /\ j - i + 1 >= 4
    /\ IsUpper(text[i])
    /\ i = 1 \/ ~IsWordChar(text[i - 1])
    /\ \A k \in (i + 1)..j : IsLower(text[k])
    /\ j = Len(text) \/ ~IsWordChar(text[j + 1])

\* the capitalized words of the text that are not stop words
TopicCandidates(text) ==
    UNION {{SubSeq(text, i, j) : j \in {j \in (i + 3)..Len(text) : CapitalizedAt(text, i, j)}} :
              i \in {i \in 1..Len(text) : IsUpper(text[i])}}
        \ topic_common_words

\* the number of times the capitalized word w is in the text
TopicFrequency(text, w) ==
    Cardinality({i \in 1..(Len(text) - Len(w) + 1) : /\ text[i] = w[1]
                                                     /\ SubSeq(text, i, i + Len(w) - 1) = w
                                                     /\ CapitalizedAt(text, i, i + Len(w) - 1)})

\* topics lists the limit most frequent candidates of the text by descending
\* frequency, or all of them when there are fewer
MostFrequentTopics(topics, text, limit) ==
    LET candidates == TopicCandidates(text)
    IN  /\ Len(topics) = Min(limit, Cardinality(candidates))
        /\ \A k \in 1..Len(topics) : topics[k] \in candidates
        /\ \A k \in 1..Len(topics), m \in 1..Len(topics) : topics[k] = topics[m] => k = m
        /\ \A k \in 1..(Len(topics) - 1) :
              TopicFrequency(text, topics[k]) >= TopicFrequency(text, topics[k + 1])
        /\ \A w \in candidates :
              (\A k \in 1..Len(topics) : topics[k] # w) =>
                  TopicFrequency(text, w) <= TopicFrequency(text, topics[Len(topics)])

\* C16: the potential topics reported in a PdfAnalysis are the capitalized
\* words of length >= 4 of the text that are not stop words, by descending
\* frequency, limited to the 10 most frequent: a text with 10 or more such
\* words yields 10 potential topics.
C16_TenMostFrequentTopics ==
    Analyzed => MostFrequentTopics(d_analysis.potentialQuizTopics, d_text, 10)

\* C16 as amended: the potential topics reported in a PdfAnalysis are the
\* capitalized words of length >= 4 of the text that are not stop words, by
\* descending frequency, limited to the 5 most frequent: a text with 5 or
\* more such words yields 5 potential topics.
C16_FiveMostFrequentTopics ==
    Analyzed => MostFrequentTopics(d_analysis.potentialQuizTopics, d_text, 5)

\* a text of 12 distinct capitalized words and a stop word has been
\* analyzed: 5 topics are reported, the first one a word said three times
C16_Witness ==
    /\ Analyzed
    /\ d_text = TopicText(12)
    /\ Len(d_analysis.potentialQuizTopics) = 5
    /\ d_analysis.potentialQuizTopics[1] = TopicWord(2)
    /\ \A k \in 1..5 : d_analysis.potentialQuizTopics[k] # (* "There" *) <<"T","h","e","r","e">>

\* positions i..j of the text hold an alphabetic word of four or more
\* letters, with no word character before or after
AlphabeticAt(text, i, j) ==
    /\ j - i + 1 >= 4
    /\ \A k \in i..j : IsLetter(text[k])
    /\ i = 1 \/ ~IsWordChar(text[i - 1])
    /\ j = Len(text) \/ ~IsWordChar(text[j + 1])

\* the alphabetic words of four or more letters of the text that are not
\* stop words
KeywordCandidates(text) ==
    UNION {{SubSeq(text, i, j) : j \in {j \in (i + 3)..Len(text) : AlphabeticAt(text, i, j)}} :
              i \in {i \in 1..Len(text) : IsLetter(text[i])}}
        \ common_words

\* the positions of the text where the alphabetic word w starts
KeywordPositions(text, w) ==
    {i \in 1..(Len(text) - Len(w) + 1) : /\ text[i] = w[1]
                                         /\ SubSeq(text, i, i + Len(w) - 1) = w
                                         /\ AlphabeticAt(text, i, i + Len(w) - 1)}

\* the position of the first occurrence of w
FirstPosition(text, w) == CHOOSE i \in KeywordPositions(text, w) : \A j \in KeywordPositions(text, w) : i <= j

\* v comes before w in the order of the keywords: it is more frequent, or as
\* frequent and met first
RanksBefore(text, v, w) ==
    \/ Cardinality(KeywordPositions(text, v)) > Cardinality(KeywordPositions(text, w))
    \/ /\ Cardinality(KeywordPositions(text, v)) = Cardinality(KeywordPositions(text, w))
       /\ FirstPosition(text, v) < FirstPosition(text, w)

\* words lists the first 10 candidates of the text in the order of the
\* keywords, or all of them when there are fewer
TopKeywords(words, text) ==
    LET candidates == KeywordCandidates(text)
    IN  /\ Len(words) = Min(10, Cardinality(candidates))
        /\ \A k \in 1..Len(words) : words[k] \in candidates
        /\ \A k \in 1..(Len(words) - 1) : RanksBefore(text, words[k], words[k + 1])
        /\ \A w \in candidates :
              (\A k \in 1..Len(words) : words[k] # w) => RanksBefore(text, words[Len(words)], w)

\* extract_keywords_from_context has returned
KeywordsExtracted == "extract_keywords_from_context" \in d_done

\* C17: extract_keywords_from_context returns at most 10 keywords: the
\* alphabetic words of 4 or more letters of the lower-cased context that are
\* not stop words, by descending frequency, ties in the order of first
\* occurrence; no stop word and no word shorter than 4 letters is returned,
\* and the empty context gives the empty list.
C17_KeywordsOfLoweredContext ==
    KeywordsExtracted =>
        /\ Len(d_keywords) <= 10
        /\ TopKeywords(d_keywords, lower(d_text))
        /\ \A k \in 1..Len(d_keywords) : d_keywords[k] \notin common_words /\ Len(d_keywords[k]) >= 4
        /\ d_text = <<>> => d_keywords = <<>>

\* C17 as amended: the keywords extract_keywords_from_context returns are,
\* with their first letter in upper case, the alphabetic words of 4 or more
\* letters of the lower-cased context that are not stop words, at most 10,
\* by descending frequency, ties in the order of first occurrence; no
\* keyword is a stop word in any case or shorter than 4 letters, and the
\* empty context gives the empty list.
C17_KeywordsTitleCased ==
    KeywordsExtracted =>
        /\ Len(d_keywords) <= 10
        /\ TopKeywords([k \in 1..Len(d_keywords) |-> lower(d_keywords[k])], lower(d_text))
        /\ \A k \in 1..Len(d_keywords) :
              /\ d_keywords[k] = <<UpperChar(d_keywords[k][1])>> \o lower(Tail(d_keywords[k]))
              /\ lower(d_keywords[k]) \notin common_words
              /\ Len(d_keywords[k]) >= 4
        /\ d_text = <<>> => d_keywords = <<>>

\* the keywords of a text of 13 distinct words of five letters: 10 keywords,
\* the words said three times first, those said twice next, each group in
\* the order of the text
C17_Witness ==
    /\ KeywordsExtracted
    /\ d_text = TopicText(12)
    /\ Len(d_keywords) = 10
    /\ SubSeq(d_keywords, 1, 5) = <<TopicWord(2), TopicWord(5), TopicWord(8), TopicWord(11), TopicWord(1)>>
    /\ d_keywords[9] = (* "There" *) <<"T","h","e","r","e">>
    /\ d_keywords[10] = TopicWord(3)

\* the title with the substrings "Quiz" and "quiz" removed
TitleTopic(quiz_title) == replace(replace(quiz_title, (* "Quiz" *) <<"Q","u","i","z">>, <<>>), (* "quiz" *) <<"q","u","i","z">>, <<>>)

\* C18: in 'comprehensive' mode a quiz without learningObjectives comes back
\* with exactly 3 learning objectives, those of the objective generator for
\* the topic obtained from the title of the input quiz by removing "Quiz" and
\* "quiz" (with or without the blanks this leaves at the ends); a quiz with
\* learningObjectives keeps them unchanged.
C18_ObjectivesFromInputTitle ==
    last.mode = s_comprehensive =>
        IF "learningObjectives" \in DOMAIN last.before
        THEN LastResult.learningObjectives = last.before.learningObjectives
        ELSE /\ Len(LastResult.learningObjectives) = 3
             /\ LET topic == TitleTopic(Get(last.before, "title", <<>>))
                IN  LastResult.learningObjectives \in
                        {generate_learning_objectives(topic, 3), generate_learning_objectives(strip(topic), 3)}

ElaborationSentence ==
    (* " This understanding is crucial for building a comprehensive knowledge base and applying concepts in practical scenarios." *) <<" ","T","h","i","s"," ","u","n","d","e","r","s","t","a","n","d","i","n","g"," ","i","s"," ","c","r","u","c","i","a","l"," ","f","o","r"," ","b","u","i","l","d","i","n","g"," ","a"," ","c","o","m","p","r","e","h","e","n","s","i","v","e"," ","k","n","o","w","l","e","d","g","e"," ","b","a","s","e"," ","a","n","d"," ","a","p","p","l","y","i","n","g"," ","c","o","n","c","e","p","t","s"," ","i","n"," ","p","r","a","c","t","i","c","a","l"," ","s","c","e","n","a","r","i","o","s",".">>

\* C19: in 'comprehensive' mode every question whose explanation exists and
\* has fewer than 10 whitespace-separated words gets the elaboration sentence
\* appended to it, every question whose explanation has 10 or more words
\* keeps it unchanged, and a question with no explanation gets none.
C19_ShortExplanationsElaborated ==
    last.mode = s_comprehensive =>
        \A k \in 1..Len(QuestionsOf(last.before)) :
            IF "explanation" \in DOMAIN last.before.questions[k]
            THEN LastResult.questions[k].explanation
                    = (IF Len(split(last.before.questions[k].explanation)) < 10
                       THEN last.before.questions[k].explanation \o ElaborationSentence
                       ELSE last.before.questions[k].explanation)
            ELSE "explanation" \notin DOMAIN LastResult.questions[k]

\* a quiz whose first question has an empty explanation, whose second has
\* one of 10 words and whose third has none has been through 'comprehensive'
\* mode: the first explanation is the sentence, the second is as it was
C19_Witness ==
    /\ last.mode = s_comprehensive
    /\ Len(QuestionsOf(last.before)) >= 3
    /\ "explanation" \in DOMAIN last.before.questions[1]
    /\ last.before.questions[1].explanation = <<>>
    /\ LastResult.questions[1].explanation = ElaborationSentence
    /\ "explanation" \in DOMAIN last.before.questions[2]
    /\ Len(split(last.before.questions[2].explanation)) = 10
    /\ LastResult.questions[2].explanation = (* "a b c d e f g h i j" *) <<"a"," ","b"," ","c"," ","d"," ","e"," ","f"," ","g"," ","h"," ","i"," ","j">>
    /\ "explanation" \notin DOMAIN LastResult.questions[3]

\* the numQuestions the request carries, 10 when it carries none
ReqNumQuestions == Get(h_data, "numQuestions", JInt(10))

\* the number x is below 1 or above 50
OutsideCountRange(x) ==
    \/ x.t = "int" /\ (x.v < 1 \/ x.v > 50)
    \/ x.t = "float" /\ (x.v < 10 \/ x.v > 500)

\* C20: the /generate-quiz handler enforces the question-count range: a
\* request whose numQuestions is below 1 or above 50 is answered with a 400
\* error and neither the LLM path nor the fallback generator is called; the
\* fallback generator is only ever called with a count in 1..50.
C20_CountRangeEnforced ==
    (h_response # NoResponse /\ h_data # EmptyDict) =>
        /\ OutsideCountRange(ReqNumQuestions) =>
              /\ h_response.status = 400
              /\ h_response.calls = <<>>
        /\ Called("generate_enhanced_fallback_quiz") =>
              /\ ReqCount \in 1..50
              /\ Len(h_response.body.data.questions) = ReqCount


\* C21: the places that assign per-question points and time limit from a
\* difficulty string agree for every difficulty string, unrecognized ones
\* included: the fallback quiz generator, the fallback question generator and
\* the LLM-result post-processors give the same (points, timeLimit) for the
\* same difficulty.
C21_PointsAndTimeAgree ==
    \A a, b \in AssignSites :
        (a_assigned[a] # {} /\ a_assigned[b] # {}) => a_assigned[a] = a_assigned[b]


\* the list generate_plausible_options shuffles for question i (0-based) of
\* the generated quiz: the correct option, then the first three distractors
GenUnshuffled(i) ==
    <<(* "The " *) <<"T","h","e"," ">> \o GenAspect(i)>> \o Take(distractors_for(GenAspect(i), gen.topic, gen.difficulty), 3)

\* the fourth distractor of question i (0-based) of the generated quiz
GenFourthDistractor(i) == distractors_for(GenAspect(i), gen.topic, gen.difficulty)[4]

\* a is a permutation of b
IsPermutationOf(a, b) ==
    /\ Len(a) = Len(b)
    /\ \E f \in [1..Len(a) -> 1..Len(a)] :
          /\ \A i, j \in 1..Len(a) : f[i] = f[j] => i = j
          /\ \A i \in 1..Len(a) : a[i] = b[f[i]]

\* C22: for every outcome of the shuffle, the list generate_plausible_options
\* returns is a permutation of [correct option, distractor 1, distractor 2,
\* distractor 3] of the chosen difficulty: the move of the correct option to
\* index 0 neither drops nor duplicates an option, indices 1..3 hold exactly
\* the first three distractors in some order, and the fourth distractor never
\* appears.
C22_OptionsPermutation ==
    origin = "fallback" =>
        \A k \in 1..Len(CurQuiz.questions) :
            LET options == CurQuiz.questions[k].options
                unshuffled == GenUnshuffled(k - 1)
            IN  /\ IsPermutationOf(options, unshuffled)
                /\ {options[i] : i \in 2..4} = {unshuffled[i] : i \in 2..4}
                /\ Cardinality({options[i] : i \in 1..4}) = 4
                /\ \A i \in 1..4 : options[i] # GenFourthDistractor(k - 1)

\* the shuffle left the correct option of the first question last, and the
\* question has it first with the distractors in another order than the
\* templates'
C22_Witness ==
    /\ origin = "fallback"
    /\ calls = <<>>
    /\ \E r \in 0..(RngStates - 1) :
          /\ rng_after(r, gen.num_questions) = rng
          /\ ListIndex(np_random_shuffle(GenUnshuffled(0), r), GenUnshuffled(0)[1]) = 3
    /\ CurQuiz.questions[1].options[1] = GenUnshuffled(0)[1]
    /\ CurQuiz.questions[1].options # GenUnshuffled(0)


\* C23: repeated 'comprehensive' enhancement appends the elaboration sentence
\* to an explanation at most once: a 'comprehensive' enhancement of the quiz
\* a 'comprehensive' enhancement returned leaves every question's
\* explanation as the first left it, so that after any number of successive
\* ones every explanation is the one after the first.
C23_ElaboratedAtMostOnce ==
    TwiceInMode(s_comprehensive) =>
        /\ Len(QuestionsOf(LastResult)) = Len(QuestionsOf(last.before))
        /\ \A k \in 1..Len(QuestionsOf(LastResult)) :
              IF "explanation" \in DOMAIN last.before.questions[k]
              THEN LastResult.questions[k].explanation = last.before.questions[k].explanation
              ELSE "explanation" \notin DOMAIN LastResult.questions[k]

\* a client's quiz has been through 'comprehensive' mode twice and nothing
\* else: its first question's explanation, empty at first, was the
\* elaboration sentence after the first call and is after the second
C23_Witness ==
    /\ origin = "client"
    /\ calls = <<s_comprehensive, s_comprehensive>>
    /\ Len(QuestionsOf(LastResult)) >= 1
    /\ "explanation" \in DOMAIN last.before.questions[1]
    /\ last.before.questions[1].explanation = ElaborationSentence
    /\ LastResult.questions[1].explanation = ElaborationSentence
    /\ LastResult.metadata.enhancementType = s_comprehensive


\* the metadata of a quiz given as a value, empty when it has none
MetadataOf(quiz) == Get(quiz, "metadata", EmptyDict)

StampedKeys == {"enhancedAt", "enhancementType", "enhancementProvider"}

\* C24: when enhance_quiz_content is called with a mode other than
\* explanations, difficulty or comprehensive, the returned quiz has the
\* title, description, learning objectives and questions (every field of
\* every question) of the input, and every other field of it but the
\* metadata; of the metadata only enhancedAt, enhancementType (the given
\* mode string) and enhancementProvider are written; a quiz is returned.
C24_UnknownModeOnlyStamps ==
    (last.mode # <<>> /\ last.mode \notin Modes) =>
        /\ last.ret # 0
        /\ DOMAIN LastResult = DOMAIN last.before \cup {"metadata"}
        /\ \A key \in DOMAIN last.before \ {"metadata"} : LastResult[key] = last.before[key]
        /\ DOMAIN LastResult.metadata = DOMAIN MetadataOf(last.before) \cup StampedKeys
        /\ \A key \in DOMAIN MetadataOf(last.before) \ StampedKeys :
              LastResult.metadata[key] = last.before.metadata[key]
        /\ LastResult.metadata.enhancedAt = clock - 1
        /\ LastResult.metadata.enhancementType = last.mode
        /\ LastResult.metadata.enhancementProvider = (* "quizito_ai" *) <<"q","u","i","z","i","t","o","_","a","i">>

\* a client's quiz with a title, questions of several shapes and no metadata
\* was enhanced with the type 'summary': the quiz returned has a metadata
\* stamped with 'summary'
C24_Witness ==
    /\ origin = "client"
    /\ last.mode = (* "summary" *) <<"s","u","m","m","a","r","y">>
    /\ "title" \in DOMAIN last.before
    /\ "metadata" \notin DOMAIN last.before
    /\ Len(QuestionsOf(last.before)) >= 3
    /\ LastResult.questions = last.before.questions
    /\ LastResult.metadata.enhancementType = (* "summary" *) <<"s","u","m","m","a","r","y">>

===========================================================================
